---- MODULE Spec2Model ----
(***************************************************************************)
(* Model of the run-time kernel templating / compilation cache             *)
(* (cuda_kernel, cuda_launch, objCudacache) and of the forward-scatter     *)
(* resampling operator (softsplat_func) of src/src/GMFSS_union_arch.py.    *)
(* src/src/M2M_arch.py holds a verbatim copy of the same code.             *)
(*                                                                         *)
(* Python strings are sequences of one-character strings, so that          *)
(* concatenation, replacement and the regular-expression searches of       *)
(* cuda_kernel are computed the way the code computes them.                *)
(***************************************************************************)
EXTENDS Integers, Sequences, FiniteSets, TLC

VARIABLES
    objCudacache,   \* the module-level dict: key string -> record / device name
    memo,           \* the store of @cupy.memoize(for_each_device=True) around cuda_launch
    curDevice,      \* the current CUDA device id (process state read by torch / cupy)
    nAlloc,         \* number of objects allocated so far (identity of dicts / handles)
    calls,          \* history: the completed cuda_kernel calls
    launches,       \* history: the completed cuda_launch calls
    thr,            \* concurrent callers: per thread, position and locals
    splat           \* one forward call of softsplat_func: tensors, workers, accumulator

vars == <<objCudacache, memo, curDevice, nAlloc, calls, launches, thr, splat>>

-----------------------------------------------------------------------------
(* Bounds of the model.                                                    *)

MaxCalls == 3

-----------------------------------------------------------------------------
(* Python string primitives on sequences of characters.                    *)

Digit(d) ==
    CASE d = 0 -> "0" [] d = 1 -> "1" [] d = 2 -> "2" [] d = 3 -> "3" [] d = 4 -> "4"
      [] d = 5 -> "5" [] d = 6 -> "6" [] d = 7 -> "7" [] d = 8 -> "8" [] d = 9 -> "9"

RECURSIVE NatStr(_)
NatStr(n) == IF n < 10 THEN <<Digit(n)>> ELSE NatStr(n \div 10) \o <<Digit(n % 10)>>

\* str(int)
IntStr(n) == IF n < 0 THEN <<"-">> \o NatStr(0 - n) ELSE NatStr(n)

\* str(float) for a float held as a count of halves
FloatStr(h) ==
    LET a == IF h < 0 THEN 0 - h ELSE h
    IN  (IF h < 0 THEN <<"-">> ELSE <<>>) \o NatStr(a \div 2)
        \o <<".", IF a % 2 = 0 THEN "0" ELSE "5">>

\* str(bool)
BoolStr(b) == IF b THEN <<"T", "r", "u", "e">> ELSE <<"F", "a", "l", "s", "e">>

StartsWithAt(s, i, p) ==
    /\ i >= 1
    /\ i + Len(p) - 1 <= Len(s)
    /\ SubSeq(s, i, i + Len(p) - 1) = p

\* str.find from index i (1-based); 0 when absent
FindFrom(s, p, i) ==
    IF \A j \in i..(Len(s) - Len(p) + 1) : ~StartsWithAt(s, j, p) THEN 0
    ELSE CHOOSE j \in i..(Len(s) - Len(p) + 1) :
            /\ StartsWithAt(s, j, p)
            /\ \A k \in i..(j - 1) : ~StartsWithAt(s, k, p)

Contains(s, p) == FindFrom(s, p, 1) # 0

\* str.replace(old, new): every non-overlapping occurrence, left to right
RECURSIVE Replace(_, _, _)
Replace(s, old, new) ==
    LET i == FindFrom(s, old, 1)
    IN  IF old = <<>> \/ i = 0 THEN s
        ELSE SubSeq(s, 1, i - 1) \o new
             \o Replace(SubSeq(s, i + Len(old), Len(s)), old, new)

\* str.split(",")
RECURSIVE Split(_, _)
Split(s, c) ==
    LET i == FindFrom(s, <<c>>, 1)
    IN  IF i = 0 THEN <<s>>
        ELSE <<SubSeq(s, 1, i - 1)>> \o Split(SubSeq(s, i + 1, Len(s)), c)

IsSpace(c) == c \in {" ", "\n", "\t"}

\* str.strip()
RECURSIVE Strip(_)
Strip(s) ==
    IF s = <<>> THEN s
    ELSE IF IsSpace(s[1]) THEN Strip(Tail(s))
    ELSE IF IsSpace(s[Len(s)]) THEN Strip(SubSeq(s, 1, Len(s) - 1))
    ELSE s

\* str.join(sep, parts)
RECURSIVE Join(_, _)
Join(sep, parts) ==
    IF parts = <<>> THEN <<>>
    ELSE IF Len(parts) = 1 THEN parts[1]
    ELSE parts[1] \o sep \o Join(sep, Tail(parts))

\* str of a sequence of ints separated by ", "
IntsStr(xs) == Join(<<",", " ">>, [i \in 1..Len(xs) |-> IntStr(xs[i])])

\* str(torch.dtype)
DtypeStr(d) ==
    <<"t", "o", "r", "c", "h", ".">> \o
    (CASE d = "uint8"    -> <<"u", "i", "n", "t", "8">>
       [] d = "float16"  -> <<"f", "l", "o", "a", "t", "1", "6">>
       [] d = "float32"  -> <<"f", "l", "o", "a", "t", "3", "2">>
       [] d = "float64"  -> <<"f", "l", "o", "a", "t", "6", "4">>
       [] d = "int32"    -> <<"i", "n", "t", "3", "2">>
       [] d = "int64"    -> <<"i", "n", "t", "6", "4">>
       [] d = "bfloat16" -> <<"b", "f", "l", "o", "a", "t", "1", "6">>)

\* str(torch.Size): torch.Size([1, 2])
ShapeStr(shape) ==
    <<"t", "o", "r", "c", "h", ".", "S", "i", "z", "e", "(", "[">>
    \o IntsStr(shape) \o <<"]", ")">>

\* str(tuple of ints): (2, 1), (1,), ()
StrideStr(stride) ==
    <<"(">> \o IntsStr(stride) \o (IF Len(stride) = 1 THEN <<",">> ELSE <<>>) \o <<")">>

-----------------------------------------------------------------------------
(* Binding values.                                                         *)

None == [type |-> "NoneType"]
PyInt(n) == [type |-> "int", v |-> n]
PyFloat(h) == [type |-> "float", v |-> h]
PyBool(b) == [type |-> "bool", v |-> b]
PyStr(s) == [type |-> "str", v |-> s]
PyList == [type |-> "list"]
Tensor(d, shape, stride, ptr) ==
    [type |-> "Tensor", dtype |-> d, shape |-> shape, stride |-> stride, ptr |-> ptr]

\* an entry of the (insertion-ordered) dict objVariables
Bind(name, value) == [name |-> name, value |-> value]

HasVar(objVariables, name) == \E i \in 1..Len(objVariables) : objVariables[i].name = name

\* objVariables[name]
GetVar(objVariables, name) ==
    objVariables[CHOOSE i \in 1..Len(objVariables) : objVariables[i].name = name].value

-----------------------------------------------------------------------------
(* cuda_kernel: the cache key.                                             *)

KeyTypes == {"NoneType", "int", "float", "bool", "str", "Tensor"}

\* mutant of KeyPart: the key also carries the address of a tensor's buffer
KeyPart_WithPtr(b) ==
    b.name \o
    (CASE b.value.type = "NoneType" -> <<>>
       [] b.value.type = "int"      -> IntStr(b.value.v)
       [] b.value.type = "float"    -> FloatStr(b.value.v)
       [] b.value.type = "bool"     -> BoolStr(b.value.v)
       [] b.value.type = "str"      -> b.value.v
       [] b.value.type = "Tensor"   -> DtypeStr(b.value.dtype) \o ShapeStr(b.value.shape)
                                       \o StrideStr(b.value.stride) \o IntStr(b.value.ptr)
       [] OTHER                     -> <<>>)

\* mutant of KeyPart: the key leaves a tensor's shape out
KeyPart_NoShape(b) ==
    b.name \o
    (CASE b.value.type = "NoneType" -> <<>>
       [] b.value.type = "int"      -> IntStr(b.value.v)
       [] b.value.type = "float"    -> FloatStr(b.value.v)
       [] b.value.type = "bool"     -> BoolStr(b.value.v)
       [] b.value.type = "str"      -> b.value.v
       [] b.value.type = "Tensor"   -> DtypeStr(b.value.dtype) \o StrideStr(b.value.stride)
       [] OTHER                     -> <<>>)

\* what one binding appends to strKey (lines 1284-1304)
KeyPart(b) ==
    b.name \o
    (CASE b.value.type = "NoneType" -> <<>>
       [] b.value.type = "int"      -> IntStr(b.value.v)
       [] b.value.type = "float"    -> FloatStr(b.value.v)
       [] b.value.type = "bool"     -> BoolStr(b.value.v)
       [] b.value.type = "str"      -> b.value.v
       [] b.value.type = "Tensor"   -> DtypeStr(b.value.dtype) \o ShapeStr(b.value.shape)
                                       \o StrideStr(b.value.stride)
       [] OTHER                     -> <<>>)

\* the key loop reaches "assert False" (line 1308) on a value of another type
KeyAborts(objVariables) ==
    \E i \in 1..Len(objVariables) : objVariables[i].value.type \notin KeyTypes

RECURSIVE KeyParts(_)
KeyParts(objVariables) ==
    IF objVariables = <<>> THEN <<>>
    ELSE KeyPart(Head(objVariables)) \o KeyParts(Tail(objVariables))

\* strKey as built by lines 1279-1313; strDevice is objCudacache["device"]
cuda_key(strFunction, objVariables, strDevice) ==
    strFunction \o KeyParts(objVariables) \o strDevice

-----------------------------------------------------------------------------
(* cuda_kernel: template resolution.  Every step yields                    *)
(* [ok |-> BOOLEAN, strKernel |-> string]; ok = FALSE is an exception      *)
(* (AssertionError, KeyError, AttributeError, IndexError) leaving the call. *)

Ok(s) == [ok |-> TRUE, strKernel |-> s]
Raise(s) == [ok |-> FALSE, strKernel |-> s]

Placeholder(name) == <<"{", "{">> \o name \o <<"}", "}">>

TypePlaceholder == Placeholder(<<"t", "y", "p", "e">>)

\* the C type a tensor dtype resolves {{type}} to (lines 1334-1350)
CType(d) ==
    CASE d = "uint8"   -> <<"u", "n", "s", "i", "g", "n", "e", "d", " ", "c", "h", "a", "r">>
      [] d = "float16" -> <<"h", "a", "l", "f">>
      [] d = "float32" -> <<"f", "l", "o", "a", "t">>
      [] d = "float64" -> <<"d", "o", "u", "b", "l", "e">>
      [] d = "int32"   -> <<"i", "n", "t">>
      [] d = "int64"   -> <<"l", "o", "n", "g">>

SupportedDtypes == {"uint8", "float16", "float32", "float64", "int32", "int64"}

\* mutant of SubstOne: a tensor of an unsupported dtype is passed over
SubstOne_AnyDtype(strKernel, strVariable, objValue) ==
    CASE objValue.type = "NoneType" -> Ok(strKernel)
      [] objValue.type = "int" ->
            Ok(Replace(strKernel, Placeholder(strVariable), IntStr(objValue.v)))
      [] objValue.type = "float" ->
            Ok(Replace(strKernel, Placeholder(strVariable), FloatStr(objValue.v)))
      [] objValue.type = "bool" ->
            Ok(Replace(strKernel, Placeholder(strVariable), BoolStr(objValue.v)))
      [] objValue.type = "str" ->
            Ok(Replace(strKernel, Placeholder(strVariable), objValue.v))
      [] objValue.type = "Tensor" /\ objValue.dtype \in SupportedDtypes ->
            Ok(Replace(strKernel, TypePlaceholder, CType(objValue.dtype)))
      [] objValue.type = "Tensor" -> Ok(strKernel)
      [] OTHER -> Raise(strKernel)

\* one binding of the substitution loop (lines 1319-1358): the new strKernel
SubstOne(strKernel, strVariable, objValue) ==
    CASE objValue.type = "NoneType" -> Ok(strKernel)
      [] objValue.type = "int" ->
            Ok(Replace(strKernel, Placeholder(strVariable), IntStr(objValue.v)))
      [] objValue.type = "float" ->
            Ok(Replace(strKernel, Placeholder(strVariable), FloatStr(objValue.v)))
      [] objValue.type = "bool" ->
            Ok(Replace(strKernel, Placeholder(strVariable), BoolStr(objValue.v)))
      [] objValue.type = "str" ->
            Ok(Replace(strKernel, Placeholder(strVariable), objValue.v))
      [] objValue.type = "Tensor" /\ objValue.dtype \in SupportedDtypes ->
            Ok(Replace(strKernel, TypePlaceholder, CType(objValue.dtype)))
      [] OTHER -> Raise(strKernel)

\* the substitution loop over objVariables (lines 1316-1361)
RECURSIVE SubstVars(_, _)
SubstNext(r, rest) == IF r.ok THEN SubstVars(r.strKernel, rest) ELSE r

SubstVars(strKernel, objVariables) ==
    IF objVariables = <<>> THEN Ok(strKernel)
    ELSE SubstNext(SubstOne(strKernel, Head(objVariables).name, Head(objVariables).value),
                   Tail(objVariables))

MacroDigits == {"0", "1", "2", "3", "4"}

DigitVal(c) ==
    CASE c = "0" -> 0 [] c = "1" -> 1 [] c = "2" -> 2 [] c = "3" -> 3 [] c = "4" -> 4

\* re.search(prefix + "([0-4])(\(", s): start of the leftmost match from i, or 0
RECURSIVE MacroSearch(_, _, _)
MacroSearch(s, prefix, i) ==
    LET n == Len(prefix)
    IN  IF i + n + 1 > Len(s) THEN 0
        ELSE IF /\ StartsWithAt(s, i, prefix)
                /\ s[i + n] \in MacroDigits
                /\ s[i + n + 1] = "("
             THEN i
        ELSE MacroSearch(s, prefix, i + 1)

SIZE == <<"S", "I", "Z", "E", "_">>
OFFSET == <<"O", "F", "F", "S", "E", "T", "_">>
VALUE == <<"V", "A", "L", "U", "E", "_">>

\* re.search("(SIZE_)([0-4])(\()([^\)]*)(\))", s): a match also needs a later ")"
RECURSIVE SizeSearch(_, _)
SizeSearch(s, i) ==
    LET m == MacroSearch(s, SIZE, i)
    IN  IF m = 0 THEN 0
        ELSE IF FindFrom(s, <<")">>, m + 7) # 0 THEN m
        ELSE SizeSearch(s, m + 1)

\* objVariables[strTensor].size() / .stride() raise unless strTensor names a tensor
IsTensorVar(objVariables, strTensor) ==
    /\ HasVar(objVariables, strTensor)
    /\ GetVar(objVariables, strTensor).type = "Tensor"

\* the SIZE_k loop (lines 1363-1383): SizeAt is one iteration, on the match that
\* starts at m and ends at the ")" at close
RECURSIVE ExpandSize(_, _)
SizeReplace(strKernel, objVariables, strMatch, intArg, intSizes) ==
    IF intArg >= Len(intSizes) THEN Raise(strKernel)
    ELSE ExpandSize(Replace(strKernel, strMatch, IntStr(intSizes[intArg + 1])), objVariables)

SizeAt(strKernel, objVariables, m, close, strTensor) ==
    IF ~IsTensorVar(objVariables, strTensor) THEN Raise(strKernel)
    ELSE SizeReplace(strKernel, objVariables, SubSeq(strKernel, m, close),
                     DigitVal(strKernel[m + 5]), GetVar(objVariables, strTensor).shape)

SizeMatch(strKernel, objVariables, m, close) ==
    SizeAt(strKernel, objVariables, m, close, SubSeq(strKernel, m + 7, close - 1))

SizeStep(strKernel, objVariables, m) ==
    IF m = 0 THEN Ok(strKernel)
    ELSE SizeMatch(strKernel, objVariables, m, FindFrom(strKernel, <<")">>, m + 7))

ExpandSize(strKernel, objVariables) ==
    SizeStep(strKernel, objVariables, SizeSearch(strKernel, 1))

\* the parenthesis scan (lines 1396-1405): index of the ")" that closes the macro,
\* or 0 when strKernel[intStop] runs past the end (IndexError)
RECURSIVE ScanClose(_, _, _)
ScanClose(strKernel, intStop, intParentheses) ==
    IF intStop > Len(strKernel) THEN 0
    ELSE
        LET p == intParentheses
                 + (IF strKernel[intStop] = "(" THEN 1 ELSE 0)
                 - (IF strKernel[intStop] = ")" THEN 1 ELSE 0)
        IN  IF p = 0 THEN intStop ELSE ScanClose(strKernel, intStop + 1, p)

\* one index term "((arg)*stride)" (lines 1418-1428)
IndexTerm(strArg, intStride) ==
    <<"(", "(">>
    \o Strip(Replace(Replace(strArg, <<"{">>, <<"(">>), <<"}">>, <<")">>))
    \o <<")", "*">> \o IntStr(intStride) \o <<")">>

\* str.join("+", strIndex)
IndexSum(strArgs, intStrides, intArgs) ==
    Join(<<"+">>, [k \in 1..intArgs |-> IndexTerm(strArgs[k + 1], intStrides[k])])

\* the OFFSET_k loop (lines 1385-1435) and the VALUE_k loop (lines 1437-1487),
\* which differ in the replacement text only.  IndexedStep is one iteration on
\* the match that starts at m.
RECURSIVE ExpandIndexed(_, _, _)
IndexedReplace(strKernel, objVariables, macro, strMatch, strTensor, strIndex) ==
    ExpandIndexed(
        Replace(strKernel, strMatch,
                IF macro = <<"O", "F", "F", "S", "E", "T", "_">>
                THEN <<"(">> \o strIndex \o <<")">>
                ELSE strTensor \o <<"[">> \o strIndex \o <<"]">>),
        objVariables, macro)

IndexedStrides(strKernel, objVariables, macro, strMatch, intArgs, strArgs, intStrides) ==
    IF intArgs > Len(intStrides) THEN Raise(strKernel)
    ELSE IndexedReplace(strKernel, objVariables, macro, strMatch, strArgs[1],
                        IndexSum(strArgs, intStrides, intArgs))

IndexedArgs(strKernel, objVariables, macro, strMatch, intArgs, strArgs) ==
    IF intArgs # Len(strArgs) - 1 THEN Raise(strKernel)
    ELSE IF ~IsTensorVar(objVariables, strArgs[1]) THEN Raise(strKernel)
    ELSE IndexedStrides(strKernel, objVariables, macro, strMatch, intArgs, strArgs,
                        GetVar(objVariables, strArgs[1]).stride)

IndexedSpan(strKernel, objVariables, macro, strDigit, strInner) ==
    IndexedArgs(strKernel, objVariables, macro,
                macro \o <<strDigit, "(">> \o strInner \o <<")">>,
                DigitVal(strDigit), Split(strInner, ","))

IndexedScan(strKernel, objVariables, macro, m, intStart, intStop) ==
    IF intStop = 0 THEN Raise(strKernel)
    ELSE IndexedSpan(strKernel, objVariables, macro, strKernel[m + Len(macro)],
                     SubSeq(strKernel, intStart, intStop - 1))

IndexedStep(strKernel, objVariables, macro, m) ==
    IF m = 0 THEN Ok(strKernel)
    ELSE IndexedScan(strKernel, objVariables, macro, m, m + Len(macro) + 2,
                     ScanClose(strKernel, m + Len(macro) + 2, 1))

ExpandIndexed(strKernel, objVariables, macro) ==
    IndexedStep(strKernel, objVariables, macro, MacroSearch(strKernel, macro, 1))

ThenSize(r, objVariables) ==
    IF r.ok THEN ExpandSize(r.strKernel, objVariables) ELSE r

ThenIndexed(r, objVariables, macro) ==
    IF r.ok THEN ExpandIndexed(r.strKernel, objVariables, macro) ELSE r

\* lines 1316-1487: the resolved source, or the exception that leaves the call
cuda_resolve(strKernel, objVariables) ==
    ThenIndexed(
        ThenIndexed(ThenSize(SubstVars(strKernel, objVariables), objVariables),
                    objVariables, OFFSET),
        objVariables, VALUE)

-----------------------------------------------------------------------------
(* The calls the callers make.  A call is [strFunction, strKernel,         *)
(* objVariables]; the tensors of two calls may live in different buffers   *)
(* (ptr) while agreeing in dtype, shape and strides.                       *)

NameA == <<"a">>
NameN == <<"n">>
FuncF == <<"f">>

TplSize   == <<"S", "I", "Z", "E", "_", "0", "(", "a", ")">>
TplSize1  == <<"S", "I", "Z", "E", "_", "1", "(", "a", ")">>
TplSizeB  == <<"S", "I", "Z", "E", "_", "0", "(", "b", ")">>
TplOffB   == <<"O", "F", "F", "S", "E", "T", "_", "1", "(", "b", ",", "i", ")">>
TplValB   == <<"V", "A", "L", "U", "E", "_", "1", "(", "b", ",", "i", ")">>
TplValue  == <<"{", "{", "t", "y", "p", "e", "}", "}", " ">>
             \o <<"V", "A", "L", "U", "E", "_", "2", "(", "a", ",", "i", ",", "{", "j", "}", ")">>
TplScalar == <<"{", "{", "n", "}", "}", "+", "{", "{", "m", "}", "}">>

TenA1 == Tensor("float32", <<2, 3>>, <<3, 1>>, 1)
TenA2 == Tensor("float32", <<2, 3>>, <<3, 1>>, 2)
TenA3 == Tensor("float32", <<4, 3>>, <<3, 1>>, 1)
TenBf == Tensor("bfloat16", <<2, 3>>, <<3, 1>>, 1)

Call(f, k, v) == [strFunction |-> f, strKernel |-> k, objVariables |-> v]

CallChoices ==
    << Call(FuncF, TplSize,   <<Bind(NameA, TenA1), Bind(NameN, PyInt(7))>>),
       Call(FuncF, TplSize,   <<Bind(NameA, TenA2), Bind(NameN, PyInt(7))>>),
       Call(FuncF, TplSize,   <<Bind(NameA, TenA3), Bind(NameN, PyInt(7))>>),
       Call(FuncF, TplSize1,  <<Bind(NameA, TenA1), Bind(NameN, PyInt(7))>>),
       Call(FuncF, TplValue,  <<Bind(NameA, TenA1)>>),
       Call(FuncF, TplScalar, <<Bind(NameN, PyInt(7))>>),
       Call(FuncF, TplScalar, <<Bind(NameN, PyInt(7)), Bind(<<"m">>, None)>>),
       Call(FuncF, TplScalar, <<Bind(NameN, PyInt(7)), Bind(<<"m">>, PyFloat(1))>>),
       Call(FuncF, TplSize,   <<Bind(NameA, TenA1), Bind(NameN, PyList)>>),
       Call(FuncF, TplSize,   <<Bind(NameA, TenBf)>>),
       Call(FuncF, TplSizeB,  <<Bind(NameA, TenA1)>>),
       Call(FuncF, TplOffB,   <<Bind(NameA, TenA1)>>),
       Call(FuncF, TplValB,   <<Bind(NameA, TenA1)>>) >>

CallIds == 1..Len(CallChoices)

-----------------------------------------------------------------------------
(* Devices.  torch.cuda.get_device_name() names the current device.        *)

Devices == {0, 1}

get_device_name(d) ==
    IF d = 0 THEN <<"T", "4">> ELSE <<"A", "1", "0", "0">>

DeviceNames == {get_device_name(d) : d \in Devices}

DeviceKey == <<"d", "e", "v", "i", "c", "e">>

\* lines 1275-1277: the name is read once and kept in the cache
DeviceEntry(cache, d) ==
    IF DeviceKey \in DOMAIN cache THEN cache
    ELSE cache @@ (DeviceKey :> [device |-> get_device_name(d)])

\* Key and resolution of every call choice, computed once.
KeyTable ==
    [i \in CallIds |->
        [n \in DeviceNames |->
            cuda_key(CallChoices[i].strFunction, CallChoices[i].objVariables, n)]]

KeyAbortTable == [i \in CallIds |-> KeyAborts(CallChoices[i].objVariables)]

ResolveTable ==
    [i \in CallIds |-> cuda_resolve(CallChoices[i].strKernel, CallChoices[i].objVariables)]

-----------------------------------------------------------------------------
(* cuda_kernel as one step of a single caller (lines 1274-1492).           *)

EmptyMap == [k \in {} |-> 0]

\* mutant of KernelStore: the record is stored without the test of line 1315
KernelStore_Overwrite(c0, strFunction, strKey, res, id) ==
    IF ~res.ok
    THEN [ok |-> FALSE, strKey |-> strKey, hit |-> FALSE, resolved |-> FALSE, cache |-> c0]
    ELSE [ok |-> TRUE, strKey |-> strKey, hit |-> strKey \in DOMAIN c0, resolved |-> TRUE,
          cache |-> (strKey :> [strFunction |-> strFunction,
                                strKernel |-> res.strKernel,
                                id |-> id]) @@ c0]

\* lines 1315-1490 with the key in hand: c0 is the cache after lines 1275-1277
KernelStore(c0, strFunction, strKey, res, id) ==
    IF strKey \in DOMAIN c0
    THEN [ok |-> TRUE, strKey |-> strKey, hit |-> TRUE, resolved |-> FALSE, cache |-> c0]
    ELSE IF ~res.ok
    THEN [ok |-> FALSE, strKey |-> strKey, hit |-> FALSE, resolved |-> FALSE, cache |-> c0]
    ELSE [ok |-> TRUE, strKey |-> strKey, hit |-> FALSE, resolved |-> TRUE,
          cache |-> (strKey :> [strFunction |-> strFunction,
                                strKernel |-> res.strKernel,
                                id |-> id]) @@ c0]

\* lines 1279-1313: the key loop asserts on a value of an unsupported type
KernelKeyed(c0, i, id) ==
    IF KeyAbortTable[i]
    THEN [ok |-> FALSE, strKey |-> <<>>, hit |-> FALSE, resolved |-> FALSE, cache |-> c0]
    ELSE KernelStore(c0, CallChoices[i].strFunction, KeyTable[i][c0[DeviceKey].device],
                     ResolveTable[i], id)

\* the outcome of cuda_kernel(CallChoices[i]) on cache, with device d current and
\* id the identity of the record object a store would create
KernelOutcome(cache, i, d, id) == KernelKeyed(DeviceEntry(cache, d), i, id)

\* cuda_launch under @cupy.memoize(for_each_device=True) (lines 1498-1512):
\* the memo is looked up by (current device id, strKey); on a miss the source of
\* the record is compiled and the function object is kept
LaunchOutcome(m, cache, strKey, d, id) ==
    IF <<d, strKey>> \in DOMAIN m
    THEN [compiled |-> FALSE, handle |-> m[<<d, strKey>>], memo |-> m]
    ELSE LET h == [id |-> id, device |-> d,
                   strFunction |-> cache[strKey].strFunction,
                   strKernel |-> cache[strKey].strKernel]
         IN  [compiled |-> TRUE, handle |-> h, memo |-> (<<d, strKey>> :> h) @@ m]

\* cuda_launch(cuda_kernel(...)) as every call site writes it (lines 1589-1647):
\* cuda_kernel runs, and when it returns a key cuda_launch runs on that key
launch_kernel(i) ==
    /\ Len(calls) < MaxCalls
    /\ LET k == KernelOutcome(objCudacache, i, curDevice, nAlloc + 1)
           l == LaunchOutcome(memo, k.cache, k.strKey, curDevice, nAlloc + 2)
       IN  /\ objCudacache' = k.cache
           /\ calls' = Append(calls, [i |-> i, device |-> curDevice, ok |-> k.ok,
                                      strKey |-> k.strKey, hit |-> k.hit,
                                      resolved |-> k.resolved])
           /\ IF k.ok
              THEN /\ memo' = l.memo
                   /\ launches' = Append(launches, [device |-> curDevice, strKey |-> k.strKey,
                                                    compiled |-> l.compiled,
                                                    handle |-> l.handle])
              ELSE UNCHANGED <<memo, launches>>
           /\ nAlloc' = nAlloc + 2
    /\ UNCHANGED <<curDevice, thr, splat>>

\* the process makes another device current (torch.cuda.set_device)
set_device(d) ==
    /\ d # curDevice
    /\ curDevice' = d
    /\ UNCHANGED <<objCudacache, memo, nAlloc, calls, launches, thr, splat>>

Idle == <<>>

Init ==
    /\ objCudacache = EmptyMap
    /\ memo = EmptyMap
    /\ curDevice = 0
    /\ nAlloc = 0
    /\ calls = <<>>
    /\ launches = <<>>
    /\ thr = Idle
    /\ splat = Idle

Next ==
    \/ \E i \in CallIds : launch_kernel(i)
    \/ \E d \in Devices : set_device(d)

Spec == Init /\ [][Next]_vars

-----------------------------------------------------------------------------
(* Concurrent callers.  Each thread runs cuda_launch(cuda_kernel(...)) as   *)
(* the call sites do; the interpreter makes each dict operation atomic and *)
(* may switch threads between any two of them.  Neither cuda_kernel nor    *)
(* the memoizing wrapper takes a lock.                                     *)

Threads == {1, 2}

\* the calls the concurrent callers make: one call site, tensors of one structure
ConcChoices == {1, 2}

ThreadStart(i) ==
    [pc |-> "device_test", i |-> i, strKey |-> <<>>, strKernel |-> <<>>,
     hit |-> FALSE, seen |-> 0, src |-> <<>>, compiled |-> FALSE, handle |-> 0]

At(t, pc) == thr # Idle /\ thr[t].pc = pc

Goto(t, pc) == [thr EXCEPT ![t].pc = pc]

\* line 1275: if "device" not in objCudacache
t_device_test(t) ==
    /\ At(t, "device_test")
    /\ thr' = Goto(t, IF DeviceKey \in DOMAIN objCudacache THEN "key" ELSE "device_set")
    /\ UNCHANGED <<objCudacache, memo, curDevice, nAlloc, calls, launches, splat>>

\* line 1276: objCudacache["device"] = torch.cuda.get_device_name()
t_device_set(t) ==
    /\ At(t, "device_set")
    /\ objCudacache' = (DeviceKey :> [device |-> get_device_name(curDevice)]) @@ objCudacache
    /\ thr' = Goto(t, "key")
    /\ UNCHANGED <<memo, curDevice, nAlloc, calls, launches, splat>>

\* lines 1279-1313: the key, built from the thread's own arguments
t_key(t) ==
    /\ At(t, "key")
    /\ thr' = IF KeyAbortTable[thr[t].i] THEN Goto(t, "aborted")
              ELSE [thr EXCEPT ![t].pc = "test",
                               ![t].strKey = KeyTable[thr[t].i][objCudacache[DeviceKey].device]]
    /\ UNCHANGED <<objCudacache, memo, curDevice, nAlloc, calls, launches, splat>>

\* line 1315: if strKey not in objCudacache
t_test(t) ==
    /\ At(t, "test")
    /\ thr' = IF thr[t].strKey \in DOMAIN objCudacache
              THEN [thr EXCEPT ![t].pc = "return", ![t].hit = TRUE]
              ELSE Goto(t, "resolve")
    /\ UNCHANGED <<objCudacache, memo, curDevice, nAlloc, calls, launches, splat>>

\* lines 1316-1487: resolution, on the thread's local strKernel
t_resolve(t) ==
    /\ At(t, "resolve")
    /\ thr' = IF ResolveTable[thr[t].i].ok
              THEN [thr EXCEPT ![t].pc = "store",
                               ![t].strKernel = ResolveTable[thr[t].i].strKernel]
              ELSE Goto(t, "aborted")
    /\ UNCHANGED <<objCudacache, memo, curDevice, nAlloc, calls, launches, splat>>

\* line 1489: objCudacache[strKey] = {...}, a new record object
t_store(t) ==
    /\ At(t, "store")
    /\ objCudacache' =
          (thr[t].strKey :> [strFunction |-> CallChoices[thr[t].i].strFunction,
                             strKernel |-> thr[t].strKernel,
                             id |-> nAlloc + 1]) @@ objCudacache
    /\ nAlloc' = nAlloc + 1
    /\ thr' = Goto(t, "return")
    /\ UNCHANGED <<memo, curDevice, calls, launches, splat>>

\* line 1492: return strKey; the caller passes it to cuda_launch
t_return(t) ==
    /\ At(t, "return")
    /\ calls' = Append(calls, [i |-> thr[t].i, device |-> curDevice, ok |-> TRUE,
                               strKey |-> thr[t].strKey, hit |-> thr[t].hit,
                               resolved |-> ~thr[t].hit])
    /\ thr' = Goto(t, "memo_test")
    /\ UNCHANGED <<objCudacache, memo, curDevice, nAlloc, launches, splat>>

\* the memoizing wrapper of line 1498: look (device id, strKey) up
l_memo_test(t) ==
    /\ At(t, "memo_test")
    /\ thr' = IF <<curDevice, thr[t].strKey>> \in DOMAIN memo
              THEN [thr EXCEPT ![t].pc = "launched",
                               ![t].handle = memo[<<curDevice, thr[t].strKey>>]]
              ELSE Goto(t, "compile")
    /\ UNCHANGED <<objCudacache, memo, curDevice, nAlloc, calls, launches, splat>>

\* lines 1504-1505: compile_with_cache(objCudacache[strKey]["strKernel"], ...)
l_compile(t) ==
    /\ At(t, "compile")
    /\ thr' = [thr EXCEPT ![t].pc = "get_function",
                          ![t].seen = objCudacache[thr[t].strKey].id,
                          ![t].src = objCudacache[thr[t].strKey].strKernel]
    /\ UNCHANGED <<objCudacache, memo, curDevice, nAlloc, calls, launches, splat>>

\* line 1512: .get_function(objCudacache[strKey]["strFunction"]), a new function object
l_get_function(t) ==
    /\ At(t, "get_function")
    /\ thr' = [thr EXCEPT ![t].pc = "memo_store",
                          ![t].compiled = TRUE,
                          ![t].handle = [id |-> nAlloc + 1, device |-> curDevice,
                                         strFunction |-> objCudacache[thr[t].strKey].strFunction,
                                         strKernel |-> thr[t].src]]
    /\ nAlloc' = nAlloc + 1
    /\ UNCHANGED <<objCudacache, memo, curDevice, calls, launches, splat>>

\* the memoizing wrapper keeps the result and returns it
l_memo_store(t) ==
    /\ At(t, "memo_store")
    /\ memo' = (<<curDevice, thr[t].strKey>> :> thr[t].handle) @@ memo
    /\ thr' = Goto(t, "launched")
    /\ UNCHANGED <<objCudacache, curDevice, nAlloc, calls, launches, splat>>

\* cuda_launch has returned the handle to the caller
l_return(t) ==
    /\ At(t, "launched")
    /\ launches' = Append(launches, [device |-> curDevice, strKey |-> thr[t].strKey,
                                     compiled |-> thr[t].compiled,
                                     handle |-> thr[t].handle])
    /\ thr' = Goto(t, "done")
    /\ UNCHANGED <<objCudacache, memo, curDevice, nAlloc, calls, splat>>

InitConc ==
    /\ objCudacache = EmptyMap
    /\ memo = EmptyMap
    /\ curDevice = 0
    /\ nAlloc = 0
    /\ calls = <<>>
    /\ launches = <<>>
    /\ thr \in [Threads -> {ThreadStart(i) : i \in ConcChoices}]
    /\ splat = Idle

NextConc ==
    \E t \in Threads :
        \/ t_device_test(t)
        \/ t_device_set(t)
        \/ t_key(t)
        \/ t_test(t)
        \/ t_resolve(t)
        \/ t_store(t)
        \/ t_return(t)
        \/ l_memo_test(t)
        \/ l_compile(t)
        \/ l_get_function(t)
        \/ l_memo_store(t)
        \/ l_return(t)

SpecConc == InitConc /\ [][NextConc]_vars

-----------------------------------------------------------------------------
(* softsplat_func.forward (lines 1583-1668): the host part, and the device  *)
(* kernel softsplat_out with one worker per flat index of tenOut.          *)
(* Reals are fixed point: a flow value or a coordinate is a count of        *)
(* 1/FlowScale pixels, a bilinear weight a count of 1/FlowScale^2, so that  *)
(* floor, the weights and the sums are exact.                              *)

FlowScale == 2

Fin(v) == [fin |-> TRUE, v |-> v]
NonFinite == [fin |-> FALSE, v |-> 0]

\* the (horizontal, vertical) displacements a pixel can have
FlowPairs ==
    { <<Fin(0), Fin(0)>>,
      <<Fin(1), Fin(1)>>,
      <<Fin(0 - FlowScale - 1), Fin(FlowScale)>>,
      <<Fin(0 - 2 * FlowScale - 1), Fin(0)>>,
      <<NonFinite, Fin(0)>> }

\* shapes [N, C, H, W] of tenIn
SplatShapes == { <<1, 1, 2, 2>>, <<1, 2, 1, 2>>, <<2, 1, 1, 1>> }

\* shapes of the one-pixel tensors warp hands to the splat
WarpShapes == { <<1, 1, 1, 1>>, <<1, 2, 1, 1>>, <<1, 3, 1, 1>> }

\* the source tensors: the value at a flat index
SourcePatterns == {1, 2}

SourceValue(pattern, idx) == IF pattern = 1 THEN idx + 1 ELSE 3 - 2 * idx

NumEl(shape) == shape[1] * shape[2] * shape[3] * shape[4]

\* strides of a contiguous tensor
Contiguous(shape) == <<shape[2] * shape[3] * shape[4], shape[3] * shape[4], shape[4], 1>>

\* the flow shapes a caller may pass with a source of this shape: the agreeing
\* one, one with a third channel, one that is wider
FlowShapes(shape) ==
    { <<shape[1], 2, shape[3], shape[4]>>,
      <<shape[1], 3, shape[3], shape[4]>>,
      <<shape[1], 2, shape[3], shape[4] + 1>> }

FlowAgrees(shape, flowShape) == flowShape = <<shape[1], 2, shape[3], shape[4]>>

\* the flow tensor that gives pixel (n, y, x) the pair fp[its index]
FlowTensor(flowShape, fp) ==
    [o \in 1..NumEl(flowShape) |->
        LET n == ((o - 1) \div (flowShape[2] * flowShape[3] * flowShape[4]))
            k == ((o - 1) \div (flowShape[3] * flowShape[4])) % flowShape[2]
            y == ((o - 1) \div flowShape[4]) % flowShape[3]
            x == (o - 1) % flowShape[4]
        IN  IF k < 2 THEN fp[(n * flowShape[3] + y) * flowShape[4] + x + 1][k + 1]
            ELSE Fin(0)]

SplatStart(shape, flowShape, fp, pattern, cuda) ==
    [pc |-> "host", is_cuda |-> cuda, shape |-> shape, flowShape |-> flowShape,
     tenIn |-> [o \in 1..NumEl(shape) |-> SourceValue(pattern, o - 1)],
     tenFlow |-> FlowTensor(flowShape, fp),
     tenOut |-> [o \in 1..NumEl(shape) |-> 0],
     w |-> [o \in 1..NumEl(shape) |-> 0]]

SoftsplatOut == <<"s", "o", "f", "t", "s", "p", "l", "a", "t", "_", "o", "u", "t">>

\* lines 1604 and 1606 of the kernel template: the statements that name tenFlow
SplatTemplate ==
    <<"a", "s", "s", "e", "r", "t", "(", "S", "I", "Z", "E", "_", "1", "(", "t", "e", "n", "F",
      "l", "o", "w", ")", " ", "=", "=", " ", "2", ")", ";", "\n", "{", "{", "t", "y", "p",
      "e", "}", "}", " ", "f", "l", "t", "X", " ", "=", " ", "(", "{", "{", "t", "y", "p", "e",
      "}", "}", ")", " ", "(", "i", "n", "t", "X", ")", " ", "+", " ", "V", "A", "L", "U", "E",
      "_", "4", "(", "t", "e", "n", "F", "l", "o", "w", ",", " ", "i", "n", "t", "N", ",", " ",
      "0", ",", " ", "i", "n", "t", "Y", ",", " ", "i", "n", "t", "X", ")", ";">>

\* line 1645: {"tenIn": tenIn, "tenFlow": tenFlow, "tenOut": tenOut}
SplatVariables(shape, flowShape) ==
    << Bind(<<"t", "e", "n", "I", "n">>, Tensor("float32", shape, Contiguous(shape), 1)),
       Bind(<<"t", "e", "n", "F", "l", "o", "w">>,
            Tensor("float32", flowShape, Contiguous(flowShape), 2)),
       Bind(<<"t", "e", "n", "O", "u", "t">>, Tensor("float32", shape, Contiguous(shape), 3)) >>

SplatResolveTable ==
    [shape \in SplatShapes \cup WarpShapes |->
        [flowShape \in FlowShapes(shape) |->
            cuda_resolve(SplatTemplate, SplatVariables(shape, flowShape))]]

SplatKeyTable ==
    [shape \in SplatShapes \cup WarpShapes |->
        [flowShape \in FlowShapes(shape) |->
            [n \in DeviceNames |->
                cuda_key(SoftsplatOut, SplatVariables(shape, flowShape), n)]]]

\* lines 1584-1662 on the host: new_zeros, then cuda_launch(cuda_kernel(...)) and
\* the launch of the returned function; tenIn.is_cuda is the one thing tested
forward ==
    /\ splat # Idle
    /\ splat.pc = "host"
    /\ IF ~splat.is_cuda
       THEN /\ splat' = [splat EXCEPT !.pc = "rejected"]
            /\ UNCHANGED <<objCudacache, memo, nAlloc>>
       ELSE LET c0 == DeviceEntry(objCudacache, curDevice)
                strKey == SplatKeyTable[splat.shape][splat.flowShape][c0[DeviceKey].device]
                k == KernelStore(c0, SoftsplatOut, strKey,
                                 SplatResolveTable[splat.shape][splat.flowShape], nAlloc + 1)
                l == LaunchOutcome(memo, k.cache, strKey, curDevice, nAlloc + 2)
            IN  /\ objCudacache' = k.cache
                /\ IF k.ok
                   THEN /\ memo' = l.memo
                        /\ nAlloc' = nAlloc + 2
                        /\ splat' = [splat EXCEPT !.pc = "launched"]
                   ELSE /\ splat' = [splat EXCEPT !.pc = "rejected"]
                        /\ UNCHANGED <<memo, nAlloc>>
    /\ UNCHANGED <<curDevice, calls, launches, thr>>

\* lines 1599-1602: the flat index decoded with the sizes of tenOut
IntN(shape, intIndex) == (((intIndex \div shape[4]) \div shape[3]) \div shape[2]) % shape[1]
IntC(shape, intIndex) == ((intIndex \div shape[4]) \div shape[3]) % shape[2]
IntY(shape, intIndex) == (intIndex \div shape[4]) % shape[3]
IntX(shape, intIndex) == intIndex % shape[4]

\* OFFSET_4(tensor, n, c, y, x) as resolved: the sum of index times stride
Offset4(strides, n, c, y, x) ==
    n * strides[1] + c * strides[2] + y * strides[3] + x * strides[4]

\* VALUE_4(tenFlow, intN, k, intY, intX), read with the strides of tenFlow
FlowValue(sp, intIndex, k) ==
    sp.tenFlow[Offset4(Contiguous(sp.flowShape), IntN(sp.shape, intIndex), k,
                       IntY(sp.shape, intIndex), IntX(sp.shape, intIndex)) + 1]

\* lines 1606-1607: fltX and fltY, non-finite when the flow value is
FltX(sp, intIndex) ==
    IF FlowValue(sp, intIndex, 0).fin
    THEN Fin(IntX(sp.shape, intIndex) * FlowScale + FlowValue(sp, intIndex, 0).v)
    ELSE NonFinite

FltY(sp, intIndex) ==
    IF FlowValue(sp, intIndex, 1).fin
    THEN Fin(IntY(sp.shape, intIndex) * FlowScale + FlowValue(sp, intIndex, 1).v)
    ELSE NonFinite

\* lines 1609-1610
IsFiniteDest(sp, intIndex) == FltX(sp, intIndex).fin /\ FltY(sp, intIndex).fin

\* mutant of Floor: the cast alone, which rounds toward zero
Floor_Truncate(flt) == IF flt >= 0 THEN flt \div FlowScale ELSE 0 - ((0 - flt) \div FlowScale)

\* (int) floor(flt), lines 1614-1615
Floor(flt) == flt \div FlowScale

\* lines 1614-1621: corner 1 northwest, 2 northeast, 3 southwest, 4 southeast
CornerX(fltX, corner) == Floor(fltX) + (IF corner \in {2, 4} THEN 1 ELSE 0)
CornerY(fltY, corner) == Floor(fltY) + (IF corner \in {3, 4} THEN 1 ELSE 0)

\* mutant of CornerWeight: northeast and southwest take each other's weight
CornerWeight_Swapped(fltX, fltY, corner) ==
    LET eastX == (Floor(fltX) + 1) * FlowScale
        westX == Floor(fltX) * FlowScale
        southY == (Floor(fltY) + 1) * FlowScale
        northY == Floor(fltY) * FlowScale
    IN  CASE corner = 1 -> (eastX - fltX) * (southY - fltY)
          [] corner = 3 -> (fltX - westX) * (southY - fltY)
          [] corner = 2 -> (eastX - fltX) * (fltY - northY)
          [] corner = 4 -> (fltX - westX) * (fltY - northY)

\* lines 1623-1626: fltNorthwest, fltNortheast, fltSouthwest, fltSoutheast
CornerWeight(fltX, fltY, corner) ==
    LET eastX == (Floor(fltX) + 1) * FlowScale
        westX == Floor(fltX) * FlowScale
        southY == (Floor(fltY) + 1) * FlowScale
        northY == Floor(fltY) * FlowScale
    IN  CASE corner = 1 -> (eastX - fltX) * (southY - fltY)
          [] corner = 2 -> (fltX - westX) * (southY - fltY)
          [] corner = 3 -> (eastX - fltX) * (fltY - northY)
          [] corner = 4 -> (fltX - westX) * (fltY - northY)

\* mutant of InBounds: a corner counts only when its east and south neighbours
\* are in the image too
InBounds_Interior(shape, x, y) == x >= 0 /\ x + 1 < shape[4] /\ y >= 0 /\ y + 1 < shape[3]

\* the test of lines 1628, 1632, 1636, 1640
InBounds(shape, x, y) == x >= 0 /\ x < shape[4] /\ y >= 0 /\ y < shape[3]

\* mutant of AtomicAdd: the add is a plain store, so that the contribution an
\* earlier worker made to the cell is lost
AtomicAdd_Store(sp, intIndex, corner) ==
    LET fltX == FltX(sp, intIndex).v
        fltY == FltY(sp, intIndex).v
        x == CornerX(fltX, corner)
        y == CornerY(fltY, corner)
        fltIn == sp.tenIn[Offset4(Contiguous(sp.shape), IntN(sp.shape, intIndex),
                                  IntC(sp.shape, intIndex), IntY(sp.shape, intIndex),
                                  IntX(sp.shape, intIndex)) + 1]
        o == Offset4(Contiguous(sp.shape), IntN(sp.shape, intIndex),
                     IntC(sp.shape, intIndex), y, x) + 1
    IN  IF InBounds(sp.shape, x, y) /\ fltIn * CornerWeight(fltX, fltY, corner) # 0
        THEN [sp.tenOut EXCEPT ![o] = fltIn * CornerWeight(fltX, fltY, corner)]
        ELSE sp.tenOut

\* one atomicAdd of lines 1629-1641: tenOut after the worker of intIndex has
\* handled this corner
AtomicAdd(sp, intIndex, corner) ==
    LET fltX == FltX(sp, intIndex).v
        fltY == FltY(sp, intIndex).v
        x == CornerX(fltX, corner)
        y == CornerY(fltY, corner)
        fltIn == sp.tenIn[Offset4(Contiguous(sp.shape), IntN(sp.shape, intIndex),
                                  IntC(sp.shape, intIndex), IntY(sp.shape, intIndex),
                                  IntX(sp.shape, intIndex)) + 1]
        o == Offset4(Contiguous(sp.shape), IntN(sp.shape, intIndex),
                     IntC(sp.shape, intIndex), y, x) + 1
    IN  IF InBounds(sp.shape, x, y)
        THEN [sp.tenOut EXCEPT ![o] = @ + fltIn * CornerWeight(fltX, fltY, corner)]
        ELSE sp.tenOut

\* line 1649: block=tuple([512, 1, 1])
BlockDim == 512

\* line 1648: grid=tuple([int((tenOut.nelement() + 512 - 1) / 512), 1, 1])
GridDim(n) == (n + BlockDim - 1) \div BlockDim

\* mutant of ThreadCount: the kernel is launched with a single thread
ThreadCount_One(n) == 1

\* blockDim.x * gridDim.x, the stride of the loop of line 1598
ThreadCount(n) == BlockDim * GridDim(n)

\* the thread whose loop of line 1598 reaches intIndex
ThreadOf(shape, intIndex) == intIndex % ThreadCount(NumEl(shape))

\* the "return" of lines 1609-1610 ends the loop of the thread: the worker
\* progress after it, with intIndex and every later index of that thread over
Returned(sp, intIndex) ==
    [o \in 1..NumEl(sp.shape) |->
        IF o - 1 >= intIndex /\ ThreadOf(sp.shape, o - 1) = ThreadOf(sp.shape, intIndex)
        THEN 4 ELSE sp.w[o]]

\* one step of the worker of intIndex, taken once the thread is through the
\* earlier indices of its loop.  Its first step runs lines 1599-1612: the
\* device assert of line 1604 stops the kernel, a non-finite destination ends
\* the thread; every step handles the next corner.
softsplat_out(intIndex) ==
    /\ splat # Idle
    /\ splat.pc = "launched"
    /\ intIndex < NumEl(splat.shape)
    /\ splat.w[intIndex + 1] < 4
    /\ \A o \in 1..intIndex :
          ThreadOf(splat.shape, o - 1) = ThreadOf(splat.shape, intIndex) => splat.w[o] = 4
    /\ splat' =
          IF splat.flowShape[2] # 2
          THEN [splat EXCEPT !.pc = "trapped"]
          ELSE IF ~IsFiniteDest(splat, intIndex)
          THEN [splat EXCEPT !.w = Returned(splat, intIndex)]
          ELSE [splat EXCEPT !.w[intIndex + 1] = @ + 1,
                             !.tenOut = AtomicAdd(splat, intIndex, splat.w[intIndex + 1] + 1)]
    /\ UNCHANGED <<objCudacache, memo, curDevice, nAlloc, calls, launches, thr>>

\* lines 1666-1668: every worker has finished; forward returns tenOut
forward_return ==
    /\ splat # Idle
    /\ splat.pc = "launched"
    /\ \A o \in 1..NumEl(splat.shape) : splat.w[o] = 4
    /\ splat' = [splat EXCEPT !.pc = "returned"]
    /\ UNCHANGED <<objCudacache, memo, curDevice, nAlloc, calls, launches, thr>>

InitSplat ==
    /\ objCudacache = EmptyMap
    /\ memo = EmptyMap
    /\ curDevice = 0
    /\ nAlloc = 0
    /\ calls = <<>>
    /\ launches = <<>>
    /\ thr = Idle
    /\ \E shape \in SplatShapes : \E flowShape \in FlowShapes(shape) :
       \E pattern \in SourcePatterns : \E cuda \in BOOLEAN :
          \/ /\ FlowAgrees(shape, flowShape)
             /\ cuda
             /\ \E fp \in [1..(shape[1] * shape[3] * shape[4]) -> FlowPairs] :
                   splat = SplatStart(shape, flowShape, fp, pattern, cuda)
          \/ /\ ~(FlowAgrees(shape, flowShape) /\ cuda)
             /\ \E pair \in FlowPairs :
                   splat = SplatStart(shape, flowShape,
                                      [o \in 1..(shape[1] * flowShape[3] * flowShape[4]) |-> pair],
                                      pattern, cuda)

NextSplat ==
    \/ forward
    \/ \E intIndex \in 0..(NumEl(splat.shape) - 1) : softsplat_out(intIndex)
    \/ forward_return

SpecSplat == InitSplat /\ [][NextSplat]_vars

-----------------------------------------------------------------------------
(* softsplat_func.backward (lines 1674-1885): the host part and the two     *)
(* device kernels softsplat_ingrad and softsplat_flowgrad, one worker per   *)
(* flat index of the gradient tensor each.  Every worker writes its own     *)
(* element only.  The variable splat holds the call.                       *)

\* shapes [N, C, H, W] of the saved tenIn
GradShapes == { <<1, 2, 1, 2>>, <<1, 1, 2, 1>>, <<2, 1, 1, 1>> }

\* the upstream gradients: the value at a flat index
OutgradPatterns == {1, 2}

OutgradValue(pattern, idx) == IF pattern = 1 THEN 2 * idx + 1 ELSE 2 - 3 * idx

\* what the elements of a tensor from new_empty may hold before they are written
Uninitialized == {0, 7}

FlowShapeOf(shape) == <<shape[1], 2, shape[3], shape[4]>>

GradStart(shape, fp, pattern, gradPattern, needsIn, needsFlow, cuda) ==
    [pc |-> "bwd_host", is_cuda |-> cuda, shape |-> shape, flowShape |-> FlowShapeOf(shape),
     needs_input_grad |-> <<needsIn, needsFlow>>,
     tenIn |-> [o \in 1..NumEl(shape) |-> SourceValue(pattern, o - 1)],
     tenFlow |-> FlowTensor(FlowShapeOf(shape), fp),
     tenOutgrad |-> [o \in 1..NumEl(shape) |-> OutgradValue(gradPattern, o - 1)],
     tenIngrad |-> <<>>,
     tenFlowgrad |-> <<>>,
     wi |-> [o \in 1..NumEl(shape) |-> FALSE],
     wf |-> [o \in 1..NumEl(FlowShapeOf(shape)) |-> FALSE]]

SoftsplatIngrad ==
    <<"s", "o", "f", "t", "s", "p", "l", "a", "t", "_", "i", "n", "g", "r", "a", "d">>

SoftsplatFlowgrad ==
    <<"s", "o", "f", "t", "s", "p", "l", "a", "t", "_", "f", "l", "o", "w", "g", "r", "a", "d">>

\* lines 1713 and 1717 (1799 and 1803) of the kernel templates, the same text as
\* lines 1604 and 1606
GradTemplate == SplatTemplate

\* lines 1756-1762 and 1860-1866: the bindings; a gradient not asked for is None
GradVariables(shape, needsIn, needsFlow) ==
    << Bind(<<"t", "e", "n", "I", "n">>, Tensor("float32", shape, Contiguous(shape), 1)),
       Bind(<<"t", "e", "n", "F", "l", "o", "w">>,
            Tensor("float32", FlowShapeOf(shape), Contiguous(FlowShapeOf(shape)), 2)),
       Bind(<<"t", "e", "n", "O", "u", "t", "g", "r", "a", "d">>,
            Tensor("float32", shape, Contiguous(shape), 3)),
       Bind(<<"t", "e", "n", "I", "n", "g", "r", "a", "d">>,
            IF needsIn THEN Tensor("float32", shape, Contiguous(shape), 4) ELSE None),
       Bind(<<"t", "e", "n", "F", "l", "o", "w", "g", "r", "a", "d">>,
            IF needsFlow
            THEN Tensor("float32", FlowShapeOf(shape), Contiguous(FlowShapeOf(shape)), 5)
            ELSE None) >>

GradResolveTable ==
    [shape \in GradShapes |->
        [needs \in BOOLEAN \X BOOLEAN |->
            cuda_resolve(GradTemplate, GradVariables(shape, needs[1], needs[2]))]]

GradKeyTable ==
    [strFunction \in {SoftsplatIngrad, SoftsplatFlowgrad} |->
        [shape \in GradShapes |->
            [needs \in BOOLEAN \X BOOLEAN |->
                [n \in DeviceNames |->
                    cuda_key(strFunction, GradVariables(shape, needs[1], needs[2]), n)]]]]

\* cuda_launch(cuda_kernel(strFunction, ..., ...)) at a call site of backward:
\* keys maps the cached device name to the key of the call
KernelLaunch(strFunction, keys, res) ==
    LET c0 == DeviceEntry(objCudacache, curDevice)
        strKey == keys[c0[DeviceKey].device]
        k == KernelStore(c0, strFunction, strKey, res, nAlloc + 1)
        l == LaunchOutcome(memo, k.cache, strKey, curDevice, nAlloc + 2)
    IN  /\ objCudacache' = k.cache
        /\ memo' = l.memo
        /\ nAlloc' = nAlloc + 2

\* lines 1675-1778: the saved tensors, the assert on tenOutgrad, new_empty for
\* the gradients asked for, and the launch of softsplat_ingrad
backward ==
    /\ splat # Idle
    /\ splat.pc = "bwd_host"
    /\ IF ~splat.is_cuda
       THEN /\ splat' = [splat EXCEPT !.pc = "rejected"]
            /\ UNCHANGED <<objCudacache, memo, nAlloc>>
       ELSE /\ \E g \in Uninitialized :
                  splat' = [splat EXCEPT
                               !.pc = "ingrad",
                               !.tenIngrad = IF splat.needs_input_grad[1]
                                             THEN [o \in 1..NumEl(splat.shape) |-> g]
                                             ELSE <<>>,
                               !.tenFlowgrad = IF splat.needs_input_grad[2]
                                               THEN [o \in 1..NumEl(splat.flowShape) |-> g]
                                               ELSE <<>>,
                               !.wi = [o \in 1..NumEl(splat.shape) |->
                                          ~splat.needs_input_grad[1]]]
            /\ IF splat.needs_input_grad[1]
               THEN KernelLaunch(SoftsplatIngrad,
                                 GradKeyTable[SoftsplatIngrad][splat.shape][splat.needs_input_grad],
                                 GradResolveTable[splat.shape][splat.needs_input_grad])
               ELSE UNCHANGED <<objCudacache, memo, nAlloc>>
    /\ UNCHANGED <<curDevice, calls, launches, thr>>

\* VALUE_4(tenFlow, intN, k, intY, intX)
FlowAt(sp, n, k, y, x) == sp.tenFlow[Offset4(Contiguous(sp.flowShape), n, k, y, x) + 1]

\* lines 1717-1718 and 1803-1804: fltX and fltY
DestX(sp, n, y, x) ==
    IF FlowAt(sp, n, 0, y, x).fin THEN Fin(x * FlowScale + FlowAt(sp, n, 0, y, x).v)
    ELSE NonFinite

DestY(sp, n, y, x) ==
    IF FlowAt(sp, n, 1, y, x).fin THEN Fin(y * FlowScale + FlowAt(sp, n, 1, y, x).v)
    ELSE NonFinite

\* lines 1720-1721 and 1806-1807
DestFinite(sp, n, y, x) == DestX(sp, n, y, x).fin /\ DestY(sp, n, y, x).fin

\* VALUE_4(tenOutgrad, n, c, y, x) and VALUE_4(tenIn, n, c, y, x)
OutgradAt(sp, n, c, y, x) == sp.tenOutgrad[Offset4(Contiguous(sp.shape), n, c, y, x) + 1]
InAt(sp, n, c, y, x) == sp.tenIn[Offset4(Contiguous(sp.shape), n, c, y, x) + 1]

\* mutant of IngradWeight: northwest and southeast take each other's weight
IngradWeight_Swapped(fltX, fltY, corner) ==
    LET eastX == (Floor(fltX) + 1) * FlowScale
        westX == Floor(fltX) * FlowScale
        southY == (Floor(fltY) + 1) * FlowScale
        northY == Floor(fltY) * FlowScale
    IN  CASE corner = 4 -> (eastX - fltX) * (southY - fltY)
          [] corner = 2 -> (fltX - westX) * (southY - fltY)
          [] corner = 3 -> (eastX - fltX) * (fltY - northY)
          [] corner = 1 -> (fltX - westX) * (fltY - northY)

\* lines 1732-1735: the weights of softsplat_ingrad
IngradWeight(fltX, fltY, corner) ==
    LET eastX == (Floor(fltX) + 1) * FlowScale
        westX == Floor(fltX) * FlowScale
        southY == (Floor(fltY) + 1) * FlowScale
        northY == Floor(fltY) * FlowScale
    IN  CASE corner = 1 -> (eastX - fltX) * (southY - fltY)
          [] corner = 2 -> (fltX - westX) * (southY - fltY)
          [] corner = 3 -> (eastX - fltX) * (fltY - northY)
          [] corner = 4 -> (fltX - westX) * (fltY - northY)

\* one guarded "fltIngrad +=" of lines 1737-1751
IngradTerm(sp, n, c, fltX, fltY, corner) ==
    IF InBounds(sp.shape, CornerX(fltX, corner), CornerY(fltY, corner))
    THEN OutgradAt(sp, n, c, CornerY(fltY, corner), CornerX(fltX, corner))
            * IngradWeight(fltX, fltY, corner)
    ELSE 0

\* fltIngrad at line 1753
IngradSum(sp, n, c, fltX, fltY) ==
    IngradTerm(sp, n, c, fltX, fltY, 1) + IngradTerm(sp, n, c, fltX, fltY, 2)
    + IngradTerm(sp, n, c, fltX, fltY, 3) + IngradTerm(sp, n, c, fltX, fltY, 4)

\* mutant of GradStore: the store lands in the cell after the worker's own
GradStore_Neighbour(tenGrad, intIndex, fltGrad) ==
    [tenGrad EXCEPT ![((intIndex + 1) % Len(tenGrad)) + 1] = fltGrad]

\* lines 1753 and 1857: "tenIngrad[intIndex] = fltIngrad" and
\* "tenFlowgrad[intIndex] = fltFlowgrad", a plain store
GradStore(tenGrad, intIndex, fltGrad) == [tenGrad EXCEPT ![intIndex + 1] = fltGrad]

\* the "return" of a thread ends its loop (lines 1707, 1720-1721): the done
\* flags after it, with intIndex and every later index of the thread over
GradReturned(done, intIndex) ==
    [o \in 1..Len(done) |->
        IF o - 1 >= intIndex
           /\ (o - 1) % ThreadCount(Len(done)) = intIndex % ThreadCount(Len(done))
        THEN TRUE ELSE done[o]]

\* the thread is through the earlier indices of its loop
GradReady(done, intIndex) ==
    \A o \in 1..intIndex :
        (o - 1) % ThreadCount(Len(done)) = intIndex % ThreadCount(Len(done)) => done[o]

\* the worker of intIndex of softsplat_ingrad (lines 1707-1754)
softsplat_ingrad(intIndex) ==
    /\ splat # Idle
    /\ splat.pc = "ingrad"
    /\ intIndex < NumEl(splat.shape)
    /\ ~splat.wi[intIndex + 1]
    /\ GradReady(splat.wi, intIndex)
    /\ splat' =
          IF ~DestFinite(splat, IntN(splat.shape, intIndex), IntY(splat.shape, intIndex),
                         IntX(splat.shape, intIndex))
          THEN [splat EXCEPT !.wi = GradReturned(splat.wi, intIndex)]
          ELSE [splat EXCEPT
                   !.wi[intIndex + 1] = TRUE,
                   !.tenIngrad = GradStore(splat.tenIngrad, intIndex,
                       IngradSum(splat, IntN(splat.shape, intIndex), IntC(splat.shape, intIndex),
                                 DestX(splat, IntN(splat.shape, intIndex),
                                       IntY(splat.shape, intIndex),
                                       IntX(splat.shape, intIndex)).v,
                                 DestY(splat, IntN(splat.shape, intIndex),
                                       IntY(splat.shape, intIndex),
                                       IntX(splat.shape, intIndex)).v))]
    /\ UNCHANGED <<objCudacache, memo, curDevice, nAlloc, calls, launches, thr>>

\* lines 1781-1882: once softsplat_ingrad is through, the launch of
\* softsplat_flowgrad on the same stream, when the flow gradient is asked for
backward_flowgrad ==
    /\ splat # Idle
    /\ splat.pc = "ingrad"
    /\ \A o \in 1..NumEl(splat.shape) : splat.wi[o]
    /\ splat' = [splat EXCEPT !.pc = "flowgrad",
                              !.wf = [o \in 1..NumEl(splat.flowShape) |->
                                         ~splat.needs_input_grad[2]]]
    /\ IF splat.needs_input_grad[2]
       THEN KernelLaunch(SoftsplatFlowgrad,
                         GradKeyTable[SoftsplatFlowgrad][splat.shape][splat.needs_input_grad],
                         GradResolveTable[splat.shape][splat.needs_input_grad])
       ELSE UNCHANGED <<objCudacache, memo, nAlloc>>
    /\ UNCHANGED <<curDevice, calls, launches, thr>>

\* mutant of FlowgradWeight: every corner of the horizontal channel has the sign
\* of the east corners
FlowgradWeight_Unsigned(fltX, fltY, corner, intC) ==
    LET eastX == (Floor(fltX) + 1) * FlowScale
        westX == Floor(fltX) * FlowScale
        southY == (Floor(fltY) + 1) * FlowScale
        northY == Floor(fltY) * FlowScale
    IN  IF intC = 0
        THEN CASE corner = 1 -> (southY - fltY)
               [] corner = 2 -> (southY - fltY)
               [] corner = 3 -> (fltY - northY)
               [] corner = 4 -> (fltY - northY)
        ELSE IF intC = 1
        THEN CASE corner = 1 -> (eastX - fltX) * (0 - 1)
               [] corner = 2 -> (fltX - westX) * (0 - 1)
               [] corner = 3 -> (eastX - fltX)
               [] corner = 4 -> (fltX - westX)
        ELSE 0

\* lines 1818-1835: the weights of softsplat_flowgrad for flow channel intC
FlowgradWeight(fltX, fltY, corner, intC) ==
    LET eastX == (Floor(fltX) + 1) * FlowScale
        westX == Floor(fltX) * FlowScale
        southY == (Floor(fltY) + 1) * FlowScale
        northY == Floor(fltY) * FlowScale
    IN  IF intC = 0
        THEN CASE corner = 1 -> (0 - 1) * (southY - fltY)
               [] corner = 2 -> (southY - fltY)
               [] corner = 3 -> (0 - 1) * (fltY - northY)
               [] corner = 4 -> (fltY - northY)
        ELSE IF intC = 1
        THEN CASE corner = 1 -> (eastX - fltX) * (0 - 1)
               [] corner = 2 -> (fltX - westX) * (0 - 1)
               [] corner = 3 -> (eastX - fltX)
               [] corner = 4 -> (fltX - westX)
        ELSE 0

\* one guarded "fltFlowgrad +=" of lines 1840-1854
FlowgradTerm(sp, n, intChannel, y, x, fltX, fltY, corner, intC) ==
    IF InBounds(sp.shape, CornerX(fltX, corner), CornerY(fltY, corner))
    THEN OutgradAt(sp, n, intChannel, CornerY(fltY, corner), CornerX(fltX, corner))
            * InAt(sp, n, intChannel, y, x)
            * FlowgradWeight(fltX, fltY, corner, intC)
    ELSE 0

\* the loop of lines 1837-1855 from intChannel on
RECURSIVE FlowgradFrom(_, _, _, _, _, _, _, _)
FlowgradFrom(sp, n, y, x, fltX, fltY, intC, intChannel) ==
    IF intChannel >= sp.shape[2] THEN 0
    ELSE FlowgradTerm(sp, n, intChannel, y, x, fltX, fltY, 1, intC)
         + FlowgradTerm(sp, n, intChannel, y, x, fltX, fltY, 2, intC)
         + FlowgradTerm(sp, n, intChannel, y, x, fltX, fltY, 3, intC)
         + FlowgradTerm(sp, n, intChannel, y, x, fltX, fltY, 4, intC)
         + FlowgradFrom(sp, n, y, x, fltX, fltY, intC, intChannel + 1)

\* fltFlowgrad at line 1857 for the element (n, intC, y, x) of tenFlowgrad
FlowgradSum(sp, n, intC, y, x) ==
    FlowgradFrom(sp, n, y, x, DestX(sp, n, y, x).v, DestY(sp, n, y, x).v, intC, 0)

\* the worker of intIndex of softsplat_flowgrad (lines 1793-1858); the index is
\* decoded with the sizes of tenFlowgrad
softsplat_flowgrad(intIndex) ==
    /\ splat # Idle
    /\ splat.pc = "flowgrad"
    /\ intIndex < NumEl(splat.flowShape)
    /\ ~splat.wf[intIndex + 1]
    /\ GradReady(splat.wf, intIndex)
    /\ splat' =
          IF ~DestFinite(splat, IntN(splat.flowShape, intIndex),
                         IntY(splat.flowShape, intIndex), IntX(splat.flowShape, intIndex))
          THEN [splat EXCEPT !.wf = GradReturned(splat.wf, intIndex)]
          ELSE [splat EXCEPT
                   !.wf[intIndex + 1] = TRUE,
                   !.tenFlowgrad = GradStore(splat.tenFlowgrad, intIndex,
                       FlowgradSum(splat, IntN(splat.flowShape, intIndex),
                                   IntC(splat.flowShape, intIndex),
                                   IntY(splat.flowShape, intIndex),
                                   IntX(splat.flowShape, intIndex)))]
    /\ UNCHANGED <<objCudacache, memo, curDevice, nAlloc, calls, launches, thr>>

\* line 1885: both kernels are through; backward returns tenIngrad, tenFlowgrad
backward_return ==
    /\ splat # Idle
    /\ splat.pc = "flowgrad"
    /\ \A o \in 1..NumEl(splat.flowShape) : splat.wf[o]
    /\ splat' = [splat EXCEPT !.pc = "bwd_returned"]
    /\ UNCHANGED <<objCudacache, memo, curDevice, nAlloc, calls, launches, thr>>

InitBackward ==
    /\ objCudacache = EmptyMap
    /\ memo = EmptyMap
    /\ curDevice = 0
    /\ nAlloc = 0
    /\ calls = <<>>
    /\ launches = <<>>
    /\ thr = Idle
    /\ \E shape \in GradShapes : \E pattern \in SourcePatterns :
       \E gradPattern \in OutgradPatterns : \E needs \in BOOLEAN \X BOOLEAN :
       \E cuda \in BOOLEAN :
          \/ /\ cuda
             /\ \E fp \in [1..(shape[1] * shape[3] * shape[4]) -> FlowPairs] :
                   splat = GradStart(shape, fp, pattern, gradPattern, needs[1], needs[2], cuda)
          \/ /\ ~cuda
             /\ \E pair \in FlowPairs :
                   splat = GradStart(shape, [o \in 1..(shape[1] * shape[3] * shape[4]) |-> pair],
                                     pattern, gradPattern, needs[1], needs[2], cuda)

NextBackward ==
    \/ backward
    \/ \E intIndex \in 0..(NumEl(splat.shape) - 1) : softsplat_ingrad(intIndex)
    \/ backward_flowgrad
    \/ \E intIndex \in 0..(NumEl(splat.flowShape) - 1) : softsplat_flowgrad(intIndex)
    \/ backward_return

SpecBackward == InitBackward /\ [][NextBackward]_vars

-----------------------------------------------------------------------------
(* warp (lines 1521-1574), the normalizing wrapper around the splat, on     *)
(* tensors of one pixel: tenIn is the sequence of its channel values, whole *)
(* numbers; tenMetric is None or one value.  Weights, metrics and the       *)
(* normalizer are counts of Epsilon = 0.0000001.  The variable splat holds  *)
(* the call.                                                               *)

\* 0.0000001 (lines 1558, 1561, 1567), the unit
Epsilon == 1

\* 1.0 in that unit (lines 1539, 1564)
One == 10000000

\* tenMetric.exp() (line 1548), rounded to the unit
Exp(m) ==
    CASE m = 0 -> One
      [] m = 3 -> One + 3
      [] m = One -> 27182818
      [] m = 0 - 2 * One -> 1353353

MetricValues == {0, 3, One, 0 - 2 * One}

ModeString(prefix, suffix) == IF suffix = <<>> THEN prefix ELSE prefix \o <<"-">> \o suffix

WarpPrefixes ==
    { <<"s", "u", "m">>, <<"a", "v", "g">>, <<"l", "i", "n", "e", "a", "r">>,
      <<"s", "o", "f", "t">>, <<"m", "a", "x">> }

WarpSuffixes ==
    { <<>>, <<"a", "d", "d", "e", "p", "s">>, <<"z", "e", "r", "o", "e", "p", "s">>,
      <<"c", "l", "i", "p", "e", "p", "s">>, <<"f", "o", "o">> }

WarpModes == {ModeString(prefix, suffix) : prefix \in WarpPrefixes, suffix \in WarpSuffixes}

\* strMode.split("-"), computed once per mode
ModeParts == [strMode \in WarpModes |-> Split(strMode, "-")]

WarpSources == { <<2>>, <<1, 0 - 3>> }

\* the call warp(tenIn, tenFlow, tenMetric, strMode): source keeps the caller's
\* tenIn, which line 1536 rebinds
WarpStart(strMode, source, tenMetric, pair) ==
    [pc |-> "warp", is_cuda |-> TRUE, strMode |-> strMode, source |-> source,
     tenMetric |-> tenMetric,
     shape |-> <<1, Len(source), 1, 1>>, flowShape |-> <<1, 2, 1, 1>>,
     tenIn |-> source, tenFlow |-> FlowTensor(<<1, 2, 1, 1>>, <<pair>>),
     tenOut |-> <<>>, w |-> <<>>, result |-> <<>>]

\* lines 1524-1533: the asserts on strMode and tenMetric
WarpAsserts(strMode, tenMetric) ==
    /\ ModeParts[strMode][1] \in { <<"s", "u", "m">>, <<"a", "v", "g">>,
                                    <<"l", "i", "n", "e", "a", "r">>, <<"s", "o", "f", "t">> }
    /\ strMode = <<"s", "u", "m">> => tenMetric = None
    /\ strMode = <<"a", "v", "g">> => tenMetric = None
    /\ ModeParts[strMode][1] = <<"l", "i", "n", "e", "a", "r">> => tenMetric # None
    /\ ModeParts[strMode][1] = <<"s", "o", "f", "t">> => tenMetric # None

\* lines 1535-1548: the tensor handed to the splat, every channel in the unit
WarpAugment(strMode, tenIn, tenMetric) ==
    IF strMode = <<"a", "v", "g">>
    THEN [c \in 1..Len(tenIn) |-> tenIn[c] * One] \o <<One>>
    ELSE IF ModeParts[strMode][1] = <<"l", "i", "n", "e", "a", "r">>
    THEN [c \in 1..Len(tenIn) |-> tenIn[c] * tenMetric.v] \o <<tenMetric.v>>
    ELSE IF ModeParts[strMode][1] = <<"s", "o", "f", "t">>
    THEN [c \in 1..Len(tenIn) |-> tenIn[c] * Exp(tenMetric.v)] \o <<Exp(tenMetric.v)>>
    ELSE [c \in 1..Len(tenIn) |-> tenIn[c] * One]

\* the splat's view of the call once tenIn is rebound (line 1552)
WarpSplat(sp, tenIn) ==
    [sp EXCEPT !.pc = "host", !.tenIn = tenIn, !.shape = <<1, Len(tenIn), 1, 1>>,
               !.tenOut = [o \in 1..Len(tenIn) |-> 0],
               !.w = [o \in 1..Len(tenIn) |-> 0]]

\* lines 1524-1552: the asserts, the augmentation and the call of the splat,
\* which the actions forward, softsplat_out and forward_return carry out
warp ==
    /\ splat # Idle
    /\ splat.pc = "warp"
    /\ splat' =
          IF ~WarpAsserts(splat.strMode, splat.tenMetric)
          THEN [splat EXCEPT !.pc = "warp_raised"]
          ELSE WarpSplat(splat, WarpAugment(splat.strMode, splat.source, splat.tenMetric))
    /\ UNCHANGED <<objCudacache, memo, curDevice, nAlloc, calls, launches, thr>>

\* lines 1557-1567: the epsilon policy on the splatted weight channel
WarpPolicy(strMode, tenNormalize) ==
    IF Len(ModeParts[strMode]) = 1
    THEN tenNormalize + Epsilon * FlowScale * FlowScale
    ELSE IF ModeParts[strMode][2] = <<"a", "d", "d", "e", "p", "s">>
    THEN tenNormalize + Epsilon * FlowScale * FlowScale
    ELSE IF ModeParts[strMode][2] = <<"z", "e", "r", "o", "e", "p", "s">>
    THEN (IF tenNormalize = 0 THEN One * FlowScale * FlowScale ELSE tenNormalize)
    ELSE IF ModeParts[strMode][2] = <<"c", "l", "i", "p", "e", "p", "s">>
    THEN (IF tenNormalize < Epsilon * FlowScale * FlowScale
          THEN Epsilon * FlowScale * FlowScale ELSE tenNormalize)
    ELSE tenNormalize

\* a quotient of two values, kept as the pair
Quotient(num, den) == [num |-> num, den |-> den]

\* lines 1554-1574: what warp returns for the splatted tensor, channel by channel
WarpNormalize(strMode, tenOut) ==
    IF ModeParts[strMode][1] \in { <<"a", "v", "g">>, <<"l", "i", "n", "e", "a", "r">>,
                                   <<"s", "o", "f", "t">> }
    THEN [c \in 1..(Len(tenOut) - 1) |->
             Quotient(tenOut[c], WarpPolicy(strMode, tenOut[Len(tenOut)]))]
    ELSE [c \in 1..Len(tenOut) |-> Quotient(tenOut[c], One * FlowScale * FlowScale)]

\* lines 1554-1574: the splat has returned; normalize and return
warp_return ==
    /\ splat # Idle
    /\ splat.pc = "returned"
    /\ "strMode" \in DOMAIN splat
    /\ splat' = [splat EXCEPT !.pc = "warp_returned",
                              !.result = WarpNormalize(splat.strMode, splat.tenOut)]
    /\ UNCHANGED <<objCudacache, memo, curDevice, nAlloc, calls, launches, thr>>

InitWarp ==
    /\ objCudacache = EmptyMap
    /\ memo = EmptyMap
    /\ curDevice = 0
    /\ nAlloc = 0
    /\ calls = <<>>
    /\ launches = <<>>
    /\ thr = Idle
    /\ \E strMode \in WarpModes : \E source \in WarpSources :
       \E tenMetric \in {None} \cup {Fin(m) : m \in MetricValues} : \E pair \in FlowPairs :
          splat = WarpStart(strMode, source, tenMetric, pair)

NextWarp ==
    \/ warp
    \/ forward
    \/ \E intIndex \in 0..2 : softsplat_out(intIndex)
    \/ forward_return
    \/ warp_return

SpecWarp == InitWarp /\ [][NextWarp]_vars

-----------------------------------------------------------------------------
(* Relations between calls, used to state the properties.                  *)

\* what of a binding value is structure: everything but the buffer
Structure(v) ==
    IF v.type = "Tensor"
    THEN [type |-> "Tensor", dtype |-> v.dtype, shape |-> v.shape, stride |-> v.stride]
    ELSE v

SameNames(a, b) ==
    /\ a.strFunction = b.strFunction
    /\ Len(a.objVariables) = Len(b.objVariables)
    /\ \A k \in 1..Len(a.objVariables) : a.objVariables[k].name = b.objVariables[k].name

SameStructure(a, b) ==
    /\ SameNames(a, b)
    /\ \A k \in 1..Len(a.objVariables) :
          Structure(a.objVariables[k].value) = Structure(b.objVariables[k].value)

DifferentBuffers(a, b) ==
    \E k \in 1..Len(a.objVariables) :
        /\ a.objVariables[k].value.type = "Tensor"
        /\ b.objVariables[k].value.type = "Tensor"
        /\ a.objVariables[k].value.ptr # b.objVariables[k].value.ptr

\* b is a with the shape of exactly one tensor binding changed
DiffersOnlyInShape(a, b) ==
    /\ SameNames(a, b)
    /\ a.strKernel = b.strKernel
    /\ \E k \in 1..Len(a.objVariables) :
          /\ a.objVariables[k].value.type = "Tensor"
          /\ b.objVariables[k].value.type = "Tensor"
          /\ a.objVariables[k].value.shape # b.objVariables[k].value.shape
          /\ [a.objVariables[k].value EXCEPT !.shape = <<>>]
                = [b.objVariables[k].value EXCEPT !.shape = <<>>]
          /\ \A m \in 1..Len(a.objVariables) :
                m # k => a.objVariables[m].value = b.objVariables[m].value

CallPairs == {p \in (1..Len(calls)) \X (1..Len(calls)) : p[1] < p[2]}

KeyComputed(j) == ~KeyAbortTable[calls[j].i]

\* the kernel records of the cache (every entry but "device")
Records == DOMAIN objCudacache \ {DeviceKey}

Resolutions(k) == {j \in 1..Len(calls) : calls[j].resolved /\ calls[j].strKey = k}

Compilations(k) == {l \in 1..Len(launches) : launches[l].compiled /\ launches[l].strKey = k}

CompilationsOn(k, d) == {l \in Compilations(k) : launches[l].device = d}

LaunchesOn(k, d) ==
    {l \in 1..Len(launches) : launches[l].strKey = k /\ launches[l].device = d}

-----------------------------------------------------------------------------
(* Properties of the cache.                                                *)

\* C1: two calls with the same function name and the same binding names in the
\* same order, whose tensors agree in dtype, shape and strides and whose
\* scalars/strings agree in value, get the same key whatever buffers the
\* tensors live in, and the second call reuses the record the first stored:
\* it is a hit, resolves nothing and leaves that record in place.
C1_SameStructureSameKey ==
    \A p \in CallPairs :
        (/\ SameStructure(CallChoices[calls[p[1]].i], CallChoices[calls[p[2]].i])
         /\ KeyComputed(p[1]))
        => /\ calls[p[1]].strKey = calls[p[2]].strKey
           /\ calls[p[1]].ok
                => /\ calls[p[2]].ok
                   /\ calls[p[2]].hit
                   /\ ~calls[p[2]].resolved
                   /\ calls[p[2]].strKey \in Records

C1_Witness ==
    \E p \in CallPairs :
        /\ SameStructure(CallChoices[calls[p[1]].i], CallChoices[calls[p[2]].i])
        /\ DifferentBuffers(CallChoices[calls[p[1]].i], CallChoices[calls[p[2]].i])
        /\ calls[p[1]].resolved
        /\ calls[p[2]].hit

\* C2 (as claimed): a call whose key is already cached resolves and compiles
\* nothing, a call with a new key resolves once and compiles once, and so no
\* key is resolved or compiled more than once in the whole run.
C2_AtMostOncePerKey ==
    /\ \A j \in 1..Len(calls) : calls[j].hit => ~calls[j].resolved
    /\ \A j \in 1..Len(calls) : (calls[j].ok /\ ~calls[j].hit) => calls[j].resolved
    /\ \A k \in Records :
          /\ Cardinality(Resolutions(k)) <= 1
          /\ Cardinality(Compilations(k)) <= 1

C4_RecordsImmutable ==
    /\ [][\A k \in DOMAIN objCudacache :
            /\ k \in DOMAIN objCudacache'
            /\ objCudacache'[k] = objCudacache[k]]_vars
    /\ [](\A k \in Records : Cardinality(Resolutions(k)) = 1)

C4_Witness ==
    /\ Len(calls) >= 2
    /\ calls[1].resolved
    /\ calls[2].ok
    /\ calls[2].strKey = calls[1].strKey

\* C5 (as claimed): the same function name, template and bindings requested
\* while device A is current and later while another device B is current get
\* two different keys and two separate records.
C5_KeyedByCurrentDevice ==
    \A p \in CallPairs :
        (/\ calls[p[1]].i = calls[p[2]].i
         /\ calls[p[1]].device # calls[p[2]].device
         /\ calls[p[1]].ok
         /\ calls[p[2]].ok)
        => /\ calls[p[1]].strKey # calls[p[2]].strKey
           /\ objCudacache[calls[p[1]].strKey].id # objCudacache[calls[p[2]].strKey].id

HasPlaceholder(s) ==
    \E i \in 1..Len(s) :
        /\ StartsWithAt(s, i, <<"{", "{">>)
        /\ FindFrom(s, <<"}", "}">>, i + 2) # 0

\* C7 (as claimed): no stored record has a resolved source in which a {{...}}
\* placeholder remains (a call whose template names an unbound placeholder
\* fails and stores nothing).
C7_NoPlaceholderStored ==
    \A k \in Records : ~HasPlaceholder(objCudacache[k].strKernel)

\* the three cases of C8, read off a call's arguments
UnsupportedType(c) == KeyAborts(c.objVariables)

UnsupportedDtype(c) ==
    \E k \in 1..Len(c.objVariables) :
        /\ c.objVariables[k].value.type = "Tensor"
        /\ c.objVariables[k].value.dtype \notin SupportedDtypes

\* the text of s from i up to the first "," or ")" (the tensor name of a macro)
RECURSIVE NameFrom(_, _)
NameFrom(s, i) ==
    IF i > Len(s) \/ s[i] \in {",", ")"} THEN <<>>
    ELSE <<s[i]>> \o NameFrom(s, i + 1)

AbsentTensorName(c) ==
    \E macro \in {SIZE, OFFSET, VALUE} : \E m \in 1..Len(c.strKernel) :
        /\ MacroSearch(c.strKernel, macro, m) = m
        /\ FindFrom(c.strKernel, <<")">>, m) # 0
        /\ ~HasVar(c.objVariables, NameFrom(c.strKernel, m + Len(macro) + 2))

C8Case(c) == UnsupportedType(c) \/ UnsupportedDtype(c) \/ AbsentTensorName(c)

C8CaseTable == [i \in CallIds |-> C8Case(CallChoices[i])]

C6_SingleArtifact ==
    /\ [](\A l1, l2 \in 1..Len(launches) :
            (launches[l1].strKey = launches[l2].strKey
             /\ launches[l1].device = launches[l2].device)
            => launches[l1].handle = launches[l2].handle)
    /\ [](\A t1, t2 \in Threads :
            (thr[t1].strKey = thr[t2].strKey /\ thr[t1].seen # 0 /\ thr[t2].seen # 0)
            => thr[t1].seen = thr[t2].seen)
    /\ [][\A k \in Records :
            (\E t \in Threads : thr[t].seen = objCudacache[k].id)
            => objCudacache'[k] = objCudacache[k]]_vars

-----------------------------------------------------------------------------
(* Properties of the forward splat.                                        *)

Launched == splat.pc \in {"launched", "trapped", "returned"}

\* C9 (as claimed): a forward call whose flow disagrees with the source in
\* batch size, height or width, or has a channel count other than 2, is
\* rejected on the host: no kernel is launched for it.
C9_MismatchRejectedOnHost ==
    Launched => FlowAgrees(splat.shape, splat.flowShape)

AllFinite == \A intIndex \in 0..(NumEl(splat.shape) - 1) : IsFiniteDest(splat, intIndex)

\* the bilinear weight of cell coordinate cell for the destination coordinate
\* flt along one axis: 1 - |flt - cell|, and 0 beyond one pixel
Hat(flt, cell) ==
    LET d == IF flt >= cell * FlowScale THEN flt - cell * FlowScale
             ELSE cell * FlowScale - flt
    IN  IF d >= FlowScale THEN 0 ELSE FlowScale - d

\* source(n, c, y, x) times the bilinear weight of cell (u, v) for the
\* destination of pixel (y, x), summed over the pixels from flat index k on
RECURSIVE BilinearSum(_, _, _, _, _, _)
BilinearSum(sp, n, c, v, u, k) ==
    IF k >= sp.shape[3] * sp.shape[4] THEN 0
    ELSE LET intIndex == Offset4(Contiguous(sp.shape), n, c, k \div sp.shape[4],
                                 k % sp.shape[4])
         IN  sp.tenIn[intIndex + 1]
                * Hat(FltX(sp, intIndex).v, u) * Hat(FltY(sp, intIndex).v, v)
             + BilinearSum(sp, n, c, v, u, k + 1)

\* C10: when every destination is finite, the forward output at (n, c, v, u)
\* is the sum over the source pixels (y, x) of that n and c of
\* source(n, c, y, x) times the bilinear weight of (u, v) for the destination
\* (x + flow_x, y + flow_y); cells outside the image receive nothing.
C10_ForwardIsBilinearSum ==
    (splat.pc = "returned" /\ FlowAgrees(splat.shape, splat.flowShape) /\ AllFinite)
    => \A n \in 0..(splat.shape[1] - 1) : \A c \in 0..(splat.shape[2] - 1) :
       \A v \in 0..(splat.shape[3] - 1) : \A u \in 0..(splat.shape[4] - 1) :
          splat.tenOut[Offset4(Contiguous(splat.shape), n, c, v, u) + 1]
             = BilinearSum(splat, n, c, v, u, 0)

\* a finished call in which a fractional destination has corners inside and
\* outside the image and some cell has received from two source pixels
C10_Witness ==
    /\ splat.pc = "returned"
    /\ FlowAgrees(splat.shape, splat.flowShape)
    /\ AllFinite
    /\ \E i \in 0..(NumEl(splat.shape) - 1) :
          /\ FltX(splat, i).v % FlowScale # 0
          /\ \E k1, k2 \in 1..4 :
                /\ InBounds(splat.shape, CornerX(FltX(splat, i).v, k1),
                            CornerY(FltY(splat, i).v, k1))
                /\ ~InBounds(splat.shape, CornerX(FltX(splat, i).v, k2),
                             CornerY(FltY(splat, i).v, k2))
    /\ \E i, j \in 0..(NumEl(splat.shape) - 1) : \E k1, k2 \in 1..4 :
          /\ i # j
          /\ IntN(splat.shape, i) = IntN(splat.shape, j)
          /\ IntC(splat.shape, i) = IntC(splat.shape, j)
          /\ CornerX(FltX(splat, i).v, k1) = CornerX(FltX(splat, j).v, k2)
          /\ CornerY(FltY(splat, i).v, k1) = CornerY(FltY(splat, j).v, k2)
          /\ InBounds(splat.shape, CornerX(FltX(splat, i).v, k1),
                      CornerY(FltY(splat, i).v, k1))
          /\ CornerWeight(FltX(splat, i).v, FltY(splat, i).v, k1) # 0
          /\ CornerWeight(FltX(splat, j).v, FltY(splat, j).v, k2) # 0

\* the accumulator after the adds made so far are made one worker after the
\* other, in index order: worker i has handled its first sp.w[i + 1] corners
RECURSIVE AddsInOrder(_, _, _)
AddsInOrder(sp, intIndex, corner) ==
    IF intIndex >= NumEl(sp.shape) THEN sp.tenOut
    ELSE IF ~IsFiniteDest(sp, intIndex) \/ corner > sp.w[intIndex + 1]
    THEN AddsInOrder(sp, intIndex + 1, 1)
    ELSE AddsInOrder([sp EXCEPT !.tenOut = AtomicAdd(sp, intIndex, corner)],
                     intIndex, corner + 1)

Zeros(sp) == [sp EXCEPT !.tenOut = [o \in 1..NumEl(sp.shape) |-> 0]]

\* C11: whatever the order in which the workers have run so far, the
\* accumulator holds exactly the adds made so far, each once: it equals what
\* the same adds give when made worker after worker in index order.  So the
\* accumulator at return is the same in every interleaving.
C11_OrderIndependent ==
    (splat.pc \in {"launched", "returned"} /\ FlowAgrees(splat.shape, splat.flowShape))
    => splat.tenOut = AddsInOrder(Zeros(splat), 0, 1)

\* two workers are both part-way through their corners, the later one ahead of
\* the earlier one, and both have already added to one and the same cell
C11_Witness ==
    /\ splat.pc = "launched"
    /\ FlowAgrees(splat.shape, splat.flowShape)
    /\ \E i, j \in 0..(NumEl(splat.shape) - 1) :
          /\ i < j
          /\ IsFiniteDest(splat, i)
          /\ IsFiniteDest(splat, j)
          /\ splat.w[i + 1] \in 1..3
          /\ splat.w[j + 1] \in 1..3
          /\ splat.w[j + 1] > splat.w[i + 1]
          /\ IntN(splat.shape, i) = IntN(splat.shape, j)
          /\ IntC(splat.shape, i) = IntC(splat.shape, j)
          /\ \E k1 \in 1..splat.w[i + 1] : \E k2 \in 1..splat.w[j + 1] :
                /\ CornerX(FltX(splat, i).v, k1) = CornerX(FltX(splat, j).v, k2)
                /\ CornerY(FltY(splat, i).v, k1) = CornerY(FltY(splat, j).v, k2)
                /\ InBounds(splat.shape, CornerX(FltX(splat, i).v, k1),
                            CornerY(FltY(splat, i).v, k1))
                /\ CornerWeight(FltX(splat, i).v, FltY(splat, i).v, k1) # 0
                /\ CornerWeight(FltX(splat, j).v, FltY(splat, j).v, k2) # 0

ZeroFlow == \A o \in 1..NumEl(splat.flowShape) : splat.tenFlow[o] = Fin(0)

\* C12: with an all-zero flow the forward output equals the source: every
\* pixel, those of the last row and the last column included, has its own cell
\* as northwest corner with weight 1 (FlowScale^2 in fixed point) and weight 0
\* at the three other corners.
C12_ZeroFlowIdentity ==
    (splat.pc = "returned" /\ FlowAgrees(splat.shape, splat.flowShape) /\ ZeroFlow)
    => /\ \A o \in 1..NumEl(splat.shape) :
             splat.tenOut[o] = splat.tenIn[o] * FlowScale * FlowScale
       /\ \A i \in 0..(NumEl(splat.shape) - 1) :
             /\ CornerX(FltX(splat, i).v, 1) = IntX(splat.shape, i)
             /\ CornerY(FltY(splat, i).v, 1) = IntY(splat.shape, i)
             /\ CornerWeight(FltX(splat, i).v, FltY(splat, i).v, 1) = FlowScale * FlowScale
             /\ \A k \in 2..4 : CornerWeight(FltX(splat, i).v, FltY(splat, i).v, k) = 0

\* a finished call with zero flow on an image of two rows and two columns
C12_Witness ==
    /\ splat.pc = "returned"
    /\ FlowAgrees(splat.shape, splat.flowShape)
    /\ ZeroFlow
    /\ splat.shape[3] > 1
    /\ splat.shape[4] > 1
    /\ splat.tenOut[NumEl(splat.shape)] # 0

\* the cells next to coordinate flt along an axis of size cells, the cell at or
\* left of flt and its right neighbour, are both outside 0..size-1
AxisOutside(flt, size) == (flt \div FlowScale) + 1 < 0 \/ (flt \div FlowScale) >= size

\* the destination of the pixel of intIndex is finite and its four corners lie
\* outside the image
PushedOut(sp, intIndex) ==
    /\ IsFiniteDest(sp, intIndex)
    /\ \/ AxisOutside(FltX(sp, intIndex).v, sp.shape[4])
       \/ AxisOutside(FltY(sp, intIndex).v, sp.shape[3])

AllPushedOut == \A intIndex \in 0..(NumEl(splat.shape) - 1) : PushedOut(splat, intIndex)

\* C13: if the flow sends every source pixel to a destination whose four
\* corners all lie outside the image, the accumulator is all zeros after the
\* call (and at every moment of it).
C13_AllOutsideAllZero ==
    (splat.pc \in {"launched", "returned"} /\ FlowAgrees(splat.shape, splat.flowShape)
        /\ AllPushedOut)
    => \A o \in 1..NumEl(splat.shape) : splat.tenOut[o] = 0

\* a finished call on a two by two image with every pixel pushed out to the
\* left by a fractional displacement
C13_Witness ==
    /\ splat.pc = "returned"
    /\ FlowAgrees(splat.shape, splat.flowShape)
    /\ AllPushedOut
    /\ splat.shape[3] > 1
    /\ splat.shape[4] > 1
    /\ \A intIndex \in 0..(NumEl(splat.shape) - 1) :
          /\ FltX(splat, intIndex).v < 0
          /\ FltX(splat, intIndex).v % FlowScale # 0
          /\ splat.tenIn[intIndex + 1] # 0

\* as BilinearSum, over the pixels whose destination is finite only
RECURSIVE FiniteBilinearSum(_, _, _, _, _, _)
FiniteBilinearSum(sp, n, c, v, u, k) ==
    IF k >= sp.shape[3] * sp.shape[4] THEN 0
    ELSE LET intIndex == Offset4(Contiguous(sp.shape), n, c, k \div sp.shape[4],
                                 k % sp.shape[4])
         IN  (IF IsFiniteDest(sp, intIndex)
              THEN sp.tenIn[intIndex + 1]
                      * Hat(FltX(sp, intIndex).v, u) * Hat(FltY(sp, intIndex).v, v)
              ELSE 0)
             + FiniteBilinearSum(sp, n, c, v, u, k + 1)

\* C14: a source pixel whose destination x or y is non-finite adds nothing to
\* any cell and raises no error (the call neither is rejected nor traps), and
\* every pixel with a finite destination is still accumulated: the returned
\* output is the bilinear sum over the finite-destination pixels alone.
C14_NonFiniteSkipped ==
    /\ (splat.is_cuda /\ FlowAgrees(splat.shape, splat.flowShape))
       => splat.pc \notin {"rejected", "trapped"}
    /\ (splat.pc = "returned" /\ FlowAgrees(splat.shape, splat.flowShape))
       => \A n \in 0..(splat.shape[1] - 1) : \A c \in 0..(splat.shape[2] - 1) :
          \A v \in 0..(splat.shape[3] - 1) : \A u \in 0..(splat.shape[4] - 1) :
             splat.tenOut[Offset4(Contiguous(splat.shape), n, c, v, u) + 1]
                = FiniteBilinearSum(splat, n, c, v, u, 0)

\* a finished call in which a pixel with a non-finite destination precedes, in
\* index order, a pixel of the same image that has added a nonzero value
C14_Witness ==
    /\ splat.pc = "returned"
    /\ FlowAgrees(splat.shape, splat.flowShape)
    /\ \E i, j \in 0..(NumEl(splat.shape) - 1) : \E k \in 1..4 :
          /\ i < j
          /\ ~IsFiniteDest(splat, i)
          /\ IsFiniteDest(splat, j)
          /\ InBounds(splat.shape, CornerX(FltX(splat, j).v, k), CornerY(FltY(splat, j).v, k))
          /\ splat.tenIn[j + 1] * CornerWeight(FltX(splat, j).v, FltY(splat, j).v, k) # 0

-----------------------------------------------------------------------------
(* Properties of the backward pass.                                        *)

\* C15 (as claimed): after backward, at every source pixel whose forward
\* destination is non-finite the returned source gradient (every channel) and
\* the returned flow gradient (both channels) are exactly zero.
C15_NonFiniteZeroGradient ==
    splat.pc = "bwd_returned"
    => \A n \in 0..(splat.shape[1] - 1) : \A y \in 0..(splat.shape[3] - 1) :
       \A x \in 0..(splat.shape[4] - 1) :
          ~DestFinite(splat, n, y, x)
          => /\ splat.needs_input_grad[1]
                => \A c \in 0..(splat.shape[2] - 1) :
                      splat.tenIngrad[Offset4(Contiguous(splat.shape), n, c, y, x) + 1] = 0
             /\ splat.needs_input_grad[2]
                => \A k \in 0..1 :
                      splat.tenFlowgrad[Offset4(Contiguous(splat.flowShape), n, k, y, x) + 1] = 0

\* what the forward pass adds for the pixel (n, c, y, x) at one corner, per unit
\* of source value, times the upstream gradient there
ForwardGatherTerm(sp, n, c, fltX, fltY, corner) ==
    IF InBounds(sp.shape, CornerX(fltX, corner), CornerY(fltY, corner))
    THEN OutgradAt(sp, n, c, CornerY(fltY, corner), CornerX(fltX, corner))
            * CornerWeight(fltX, fltY, corner)
    ELSE 0

ForwardGather(sp, n, c, fltX, fltY) ==
    ForwardGatherTerm(sp, n, c, fltX, fltY, 1) + ForwardGatherTerm(sp, n, c, fltX, fltY, 2)
    + ForwardGatherTerm(sp, n, c, fltX, fltY, 3) + ForwardGatherTerm(sp, n, c, fltX, fltY, 4)

\* the forward output of the saved tenIn and tenFlow
ForwardOf(sp) ==
    AddsInOrder([shape |-> sp.shape, flowShape |-> sp.flowShape, tenIn |-> sp.tenIn,
                 tenFlow |-> sp.tenFlow,
                 tenOut |-> [o \in 1..NumEl(sp.shape) |-> 0],
                 w |-> [o \in 1..NumEl(sp.shape) |-> 4]], 0, 1)

RECURSIVE Dot(_, _, _)
Dot(a, b, k) == IF k > Len(a) THEN 0 ELSE a[k] * b[k] + Dot(a, b, k + 1)

GradAllFinite ==
    \A n \in 0..(splat.shape[1] - 1) : \A y \in 0..(splat.shape[3] - 1) :
    \A x \in 0..(splat.shape[4] - 1) : DestFinite(splat, n, y, x)

\* C16: at every source pixel (n, c, y, x) with a finite destination the
\* returned source gradient is the sum, over the corners inside the image, of
\* the upstream gradient at the corner times the weight the forward pass gives
\* that corner; and when every destination is finite, the sum over the cells of
\* forward(source) * upstream gradient equals the sum over the pixels of
\* source * source gradient.
C16_IngradIsForwardAdjoint ==
    (splat.pc = "bwd_returned" /\ splat.needs_input_grad[1])
    => /\ \A n \in 0..(splat.shape[1] - 1) : \A c \in 0..(splat.shape[2] - 1) :
          \A y \in 0..(splat.shape[3] - 1) : \A x \in 0..(splat.shape[4] - 1) :
             DestFinite(splat, n, y, x)
             => splat.tenIngrad[Offset4(Contiguous(splat.shape), n, c, y, x) + 1]
                   = ForwardGather(splat, n, c, DestX(splat, n, y, x).v,
                                   DestY(splat, n, y, x).v)
       /\ GradAllFinite
          => Dot(ForwardOf(splat), splat.tenOutgrad, 1) = Dot(splat.tenIn, splat.tenIngrad, 1)

\* a finished backward call, every destination finite, with a pixel whose
\* fractional destination has corners inside and outside the image and a
\* nonzero source gradient
C16_Witness ==
    /\ splat.pc = "bwd_returned"
    /\ splat.needs_input_grad[1]
    /\ GradAllFinite
    /\ Dot(splat.tenIn, splat.tenIngrad, 1) # 0
    /\ \E i \in 0..(NumEl(splat.shape) - 1) : \E k1, k2 \in 1..4 :
          /\ splat.tenIngrad[i + 1] # 0
          /\ FltX(splat, i).v % FlowScale # 0
          /\ InBounds(splat.shape, CornerX(FltX(splat, i).v, k1), CornerY(FltY(splat, i).v, k1))
          /\ ~InBounds(splat.shape, CornerX(FltX(splat, i).v, k2), CornerY(FltY(splat, i).v, k2))

\* the change of the bilinear weight of cell coordinate cell when the
\* destination coordinate flt moves right by one fixed-point step
HatSlope(flt, cell) == Hat(flt + 1, cell) - Hat(flt, cell)

\* d(weight of cell (v, u)) / d(flow_k) at the destination (fltX, fltY)
WeightSlope(fltX, fltY, v, u, k) ==
    IF k = 0 THEN HatSlope(fltX, u) * Hat(fltY, v) ELSE Hat(fltX, u) * HatSlope(fltY, v)

\* the sum, over the channels c and the cells (v, u) of the image counted by j,
\* of upstream gradient * source value * weight derivative
RECURSIVE FlowgradExpected(_, _, _, _, _, _)
FlowgradExpected(sp, n, k, y, x, j) ==
    IF j >= sp.shape[2] * sp.shape[3] * sp.shape[4] THEN 0
    ELSE OutgradAt(sp, n, IntC(sp.shape, j), IntY(sp.shape, j), IntX(sp.shape, j))
            * InAt(sp, n, IntC(sp.shape, j), y, x)
            * WeightSlope(DestX(sp, n, y, x).v, DestY(sp, n, y, x).v,
                          IntY(sp.shape, j), IntX(sp.shape, j), k)
         + FlowgradExpected(sp, n, k, y, x, j + 1)

\* C17: at every source pixel (n, y, x) with a finite destination and for each
\* flow channel k, the returned flow gradient is the sum over all channels c
\* and all cells of the image of upstream gradient(n, c, cell) *
\* source(n, c, y, x) * d(weight of the cell)/d(flow_k); the derivative is
\* taken on the bilinear weight itself and involves no source data.
C17_FlowgradIsWeightDerivative ==
    (splat.pc = "bwd_returned" /\ splat.needs_input_grad[2])
    => \A n \in 0..(splat.shape[1] - 1) : \A k \in 0..1 :
       \A y \in 0..(splat.shape[3] - 1) : \A x \in 0..(splat.shape[4] - 1) :
          DestFinite(splat, n, y, x)
          => splat.tenFlowgrad[Offset4(Contiguous(splat.flowShape), n, k, y, x) + 1]
                = FlowgradExpected(splat, n, k, y, x, 0)

\* a finished backward call on a source of two channels with a nonzero
\* gradient in the horizontal and in the vertical flow channel
C17_Witness ==
    /\ splat.pc = "bwd_returned"
    /\ splat.needs_input_grad[2]
    /\ splat.shape[2] = 2
    /\ \E i, j \in 0..(NumEl(splat.flowShape) - 1) :
          /\ IntC(splat.flowShape, i) = 0
          /\ IntC(splat.flowShape, j) = 1
          /\ DestFinite(splat, IntN(splat.flowShape, i), IntY(splat.flowShape, i),
                        IntX(splat.flowShape, i))
          /\ DestFinite(splat, IntN(splat.flowShape, j), IntY(splat.flowShape, j),
                        IntX(splat.flowShape, j))
          /\ splat.tenFlowgrad[i + 1] # 0
          /\ splat.tenFlowgrad[j + 1] # 0

-----------------------------------------------------------------------------
(* Properties of the normalizing wrapper.                                  *)

\* the call is one that warp accepted and normalizes: the prefix is avg, linear
\* or soft, and the suffix is absent, addeps, zeroeps or clipeps
NormalizingCall ==
    /\ splat # Idle
    /\ "strMode" \in DOMAIN splat
    /\ splat.pc = "warp_returned"
    /\ ModeParts[splat.strMode][1] \in { <<"a", "v", "g">>, <<"l", "i", "n", "e", "a", "r">>,
                                         <<"s", "o", "f", "t">> }
    /\ \/ Len(ModeParts[splat.strMode]) = 1
       \/ /\ Len(ModeParts[splat.strMode]) = 2
          /\ ModeParts[splat.strMode][2] \in { <<"a", "d", "d", "e", "p", "s">>,
                                               <<"z", "e", "r", "o", "e", "p", "s">>,
                                               <<"c", "l", "i", "p", "e", "p", "s">> }

\* C18: for every accepted mode whose prefix is avg, linear or soft, with or
\* without an epsilon suffix, the splat is given the image's C channels and one
\* extra weight channel, and warp returns C channels: each of the first C
\* splatted channels divided by the splatted extra channel after the epsilon
\* policy.
C18_NormalizedKeepsChannels ==
    NormalizingCall =>
        /\ Len(splat.tenIn) = Len(splat.source) + 1
        /\ Len(splat.tenOut) = Len(splat.source) + 1
        /\ Len(splat.result) = Len(splat.source)
        /\ \A c \in 1..Len(splat.result) :
              splat.result[c] =
                 Quotient(splat.tenOut[c],
                          WarpPolicy(splat.strMode, splat.tenOut[Len(splat.source) + 1]))

-----------------------------------------------------------------------------
(* forwarp_mframe_mask (M2M_arch.py, lines 1766-1796) on tensors of one     *)
(* channel and two pixels in a row.  The variable splat holds the call.     *)
(* Weights are counts of 0.000000001, image values and times whole numbers. *)

\* 0.0000001 (line 1780) in that unit
MaskEpsilon == 100

\* 0.00001 (line 1796) in that unit
MaskThreshold == 10000

MaxFlowNum == 51

\* tenFlow1.shape[0], the number of flow hypotheses
FlowNums == {1, 2, MaxFlowNum}

MaskShape == <<1, 2, 1, 2>>

\* .clip(-20.0, 20.0) (lines 1772-1773)
Clip(m) == IF m < 0 - 20 THEN 0 - 20 ELSE IF m > 20 THEN 20 ELSE m

\* .exp() of a clipped metric (lines 1772-1773), rounded to the unit
MaskExp(m) ==
    CASE m = 0 - 20 -> 2
      [] m = 0 - 12 -> 6144
      [] m = 0 - 9 -> 123410

\* tenMetric1 and tenMetric2: the metric of the even and of the odd hypotheses
MaskMetrics1 == { <<0 - 25, 0 - 9>>, <<0 - 9, 0 - 9>> }

MaskMetrics2 == { <<0 - 12, 0 - 12>>, <<0 - 9, 0 - 25>> }

\* the flows of the two pixels
MaskFlows ==
    { << <<Fin(0), Fin(0)>>, <<Fin(0), Fin(0)>> >>,
      << <<Fin(0 - 2 * FlowScale - 1), Fin(0)>>, <<Fin(0 - 2 * FlowScale - 1), Fin(0)>> >>,
      << <<Fin(1), Fin(1)>>, <<NonFinite, Fin(0)>> >> }

MaskStart(flow_num, fp1, fp2, td, m1, m2) ==
    [pc |-> "mframe", is_cuda |-> TRUE, flow_num |-> flow_num,
     tenFlow1 |-> FlowTensor(MaskShape, fp1), tenFlow2 |-> FlowTensor(MaskShape, fp2),
     t1 |-> td[1], t2 |-> td[2], tenMetric1 |-> m1, tenMetric2 |-> m2,
     idx |-> 0, tenOut |-> <<0, 0>>, tenNormalize |-> <<0, 0>>,
     result |-> <<>>, mask |-> <<>>]

\* tenIn1[idx], tenIn2[idx]: the images of hypothesis idx
MaskImage(pattern, idx) == [x \in 1..2 |-> SourceValue(pattern, (idx + x) % 2)]

\* tenMetric1[idx]: the hypotheses alternate between two metrics
MaskMetric(m, idx) == m[(idx % 2) + 1]

\* lines 1770-1776: the tensor one_fdir hands to the splat
OneFdirAugment(tenIn, td, fltWeight) ==
    [x \in 1..2 |-> tenIn[x] * td * fltWeight] \o [x \in 1..2 |-> td * fltWeight]

\* line 1778: softsplat_func.apply; the values carry the factor FlowScale^2
OneFdirSplat(tenIn, tenFlow) ==
    ForwardOf([shape |-> MaskShape, flowShape |-> MaskShape, tenIn |-> tenIn,
               tenFlow |-> tenFlow])

OneFdirNormalize_NoEpsilon(fltNormalize) == fltNormalize

\* mutant of OneFdirNormalize: the constant is subtracted
OneFdirNormalize_Minus(fltNormalize) == fltNormalize - MaskEpsilon * FlowScale * FlowScale

\* line 1780: tenOut[:, -1:, :, :] + 0.0000001
OneFdirNormalize(fltNormalize) == fltNormalize + MaskEpsilon * FlowScale * FlowScale

\* lines 1769-1780
one_fdir(tenIn, tenFlow, td, tenMetric) ==
    OneFdirSplat(OneFdirAugment(tenIn, td, MaskExp(Clip(tenMetric))), tenFlow)

OneFdirF(sp) ==
    one_fdir(MaskImage(1, sp.idx), sp.tenFlow1, sp.t1, MaskMetric(sp.tenMetric1, sp.idx))

OneFdirB(sp) ==
    one_fdir(MaskImage(2, sp.idx), sp.tenFlow2, sp.t2, MaskMetric(sp.tenMetric2, sp.idx))

\* lines 1793-1794: tenOut += ..., tenNormalize += ...
MaskAccumulate(sp, tenOutF, tenOutB) ==
    [sp EXCEPT !.idx = @ + 1,
               !.tenOut = [x \in 1..2 |-> sp.tenOut[x] + (tenOutF[x] + tenOutB[x])],
               !.tenNormalize =
                   [x \in 1..2 |-> sp.tenNormalize[x]
                                   + (OneFdirNormalize(tenOutF[2 + x])
                                      + OneFdirNormalize(tenOutB[2 + x]))]]

\* lines 1785-1794: one pass of the loop; the second splat finds the kernel the
\* first one stored
mframe_iter ==
    /\ splat # Idle
    /\ splat.pc = "mframe"
    /\ splat.idx < splat.flow_num
    /\ \E tenOutF \in {OneFdirF(splat)} : \E tenOutB \in {OneFdirB(splat)} :
          splat' = MaskAccumulate(splat, tenOutF, tenOutB)
    /\ KernelLaunch(SoftsplatOut, SplatKeyTable[MaskShape][MaskShape],
                    SplatResolveTable[MaskShape][MaskShape])
    /\ UNCHANGED <<curDevice, calls, launches, thr>>

\* line 1796: return tenOut / tenNormalize, tenNormalize < 0.00001
mframe_return ==
    /\ splat # Idle
    /\ splat.pc = "mframe"
    /\ splat.idx = splat.flow_num
    /\ splat' = [splat EXCEPT
                    !.pc = "mframe_returned",
                    !.result = [x \in 1..2 |-> Quotient(splat.tenOut[x], splat.tenNormalize[x])],
                    !.mask = [x \in 1..2 |->
                                 splat.tenNormalize[x] < MaskThreshold * FlowScale * FlowScale]]
    /\ UNCHANGED <<objCudacache, memo, curDevice, nAlloc, calls, launches, thr>>

InitMask ==
    /\ objCudacache = EmptyMap
    /\ memo = EmptyMap
    /\ curDevice = 0
    /\ nAlloc = 0
    /\ calls = <<>>
    /\ launches = <<>>
    /\ thr = Idle
    /\ \E flow_num \in FlowNums : \E fp1 \in MaskFlows : \E fp2 \in MaskFlows :
       \E td \in {0, 1} \X {0, 1} : \E m1 \in MaskMetrics1 : \E m2 \in MaskMetrics2 :
          splat = MaskStart(flow_num, fp1, fp2, td, m1, m2)

NextMask ==
    \/ mframe_iter
    \/ mframe_return

SpecMask == InitMask /\ [][NextMask]_vars

-----------------------------------------------------------------------------
(* Properties of forwarp_mframe_mask.                                      *)

\* the splat of hypothesis idx in one direction, numerators then denominators
SplatOfF(sp, idx) == OneFdirF([sp EXCEPT !.idx = idx])

SplatOfB(sp, idx) == OneFdirB([sp EXCEPT !.idx = idx])

\* the splats of one hypothesis added up, the epsilon added to the denominators
\* (elements 3 and 4) of each of the two
SplatPairSum(tenOutF, tenOutB, eps) ==
    [o \in 1..4 |-> IF o > 2 THEN (tenOutF[o] + eps) + (tenOutB[o] + eps)
                    ELSE tenOutF[o] + tenOutB[o]]

VectorSum(a, b) == [o \in 1..4 |-> a[o] + b[o]]

\* the sum over the hypotheses from idx on and both directions of the splats
RECURSIVE SumOfSplats(_, _, _)
SumOfSplats(sp, idx, eps) ==
    IF idx >= sp.flow_num THEN <<0, 0, 0, 0>>
    ELSE VectorSum(SplatPairSum(SplatOfF(sp, idx), SplatOfB(sp, idx), eps),
                   SumOfSplats(sp, idx + 1, eps))

\* the quotients of the numerators (elements 1 and 2) by the denominators
QuotientsOf(sums) == [x \in 1..2 |-> Quotient(sums[x], sums[2 + x])]

MaskReturned == splat # Idle /\ splat.pc = "mframe_returned"

\* C19: at every destination pixel forwarp_mframe_mask returns the sum over
\* all flow hypotheses and both directions of the splatted numerators, divided
\* by the sum over the same splats of the splatted denominators plus the
\* epsilon of each splat; nothing is normalized per direction.
C19_SumsThenDivides ==
    MaskReturned =>
        splat.result = QuotientsOf(SumOfSplats(splat, 0, MaskEpsilon * FlowScale * FlowScale))

\* several hypotheses, both directions reach pixel 0 with different weights
C19_Witness ==
    /\ MaskReturned
    /\ splat.flow_num > 1
    /\ SplatOfF(splat, 0)[3] > 0
    /\ SplatOfB(splat, 0)[3] > 0
    /\ SplatOfF(splat, 0)[3] # SplatOfF(splat, 1)[3]
    /\ SplatOfF(splat, 0)[3] # SplatOfB(splat, 0)[3]
    /\ splat.result[1].num # 0

\* pixel x receives nothing from any splat
Uncovered(sp, x) ==
    \A idx \in 0..(sp.flow_num - 1) : SplatOfF(sp, idx)[2 + x] = 0 /\ SplatOfB(sp, idx)[2 + x] = 0

\* one splat alone gives pixel x a weight of 0.00001 or more
CoveredBy(sp, x) ==
    \E idx \in 0..(sp.flow_num - 1) :
        \/ SplatOfF(sp, idx)[2 + x] >= MaskThreshold * FlowScale * FlowScale
        \/ SplatOfB(sp, idx)[2 + x] >= MaskThreshold * FlowScale * FlowScale

\* C20: for every number of flow hypotheses, a destination pixel that no splat
\* reaches has a summed denominator below 0.00001 and is flagged in the mask,
\* and a pixel to which one direction gives a weight of 0.00001 or more is not
\* flagged.
C20_HoleMask ==
    MaskReturned =>
        \A x \in 1..2 :
            /\ Uncovered(splat, x) =>
                  /\ splat.tenNormalize[x] < MaskThreshold * FlowScale * FlowScale
                  /\ splat.mask[x]
            /\ CoveredBy(splat, x) => ~splat.mask[x]

-----------------------------------------------------------------------------
(* The resolution of one template (lines 1316-1489), iteration by           *)
(* iteration.  The variable thr holds the run: pc names the loop the run is *)
(* in, strKernel the text so far, before the text at the start of the last  *)
(* loop pass, replaced whether that pass replaced a match, passes the number *)
(* of passes that did.                                                      *)

\* the outcome of one pass of a loop: "again" after a replacement, "break" when
\* re.search found nothing, "raised" when an exception left the call; strArgs is
\* the result of the split of lines 1408 and 1460
Pass(next, strKernel, strArgs) == [next |-> next, strKernel |-> strKernel, strArgs |-> strArgs]

\* lines 1370-1382 on the match from m to the ")" at close
SizeOnceAt(strKernel, objVariables, m, close, strTensor) ==
    IF ~IsTensorVar(objVariables, strTensor) THEN Pass("raised", strKernel, <<>>)
    ELSE IF DigitVal(strKernel[m + 5]) >= Len(GetVar(objVariables, strTensor).shape)
    THEN Pass("raised", strKernel, <<>>)
    ELSE Pass("again",
              Replace(strKernel, SubSeq(strKernel, m, close),
                      IntStr(GetVar(objVariables, strTensor).shape[DigitVal(strKernel[m + 5]) + 1])),
              <<>>)

SizeOnceMatch(strKernel, objVariables, m, close) ==
    SizeOnceAt(strKernel, objVariables, m, close, SubSeq(strKernel, m + 7, close - 1))

\* one pass of the loop of lines 1363-1383
SizeOnce(strKernel, objVariables, m) ==
    IF m = 0 THEN Pass("break", strKernel, <<>>)
    ELSE SizeOnceMatch(strKernel, objVariables, m, FindFrom(strKernel, <<")">>, m + 7))

\* mutant of IndexedText: the replacement is a macro call again
IndexedText_MacroAgain(macro, strTensor, strIndex) == macro \o <<"0", "(">> \o strTensor \o <<")">>

\* lines 1431-1434 and 1483-1486: the text that replaces the match
IndexedText(macro, strTensor, strIndex) ==
    IF macro = OFFSET THEN <<"(">> \o strIndex \o <<")">>
    ELSE strTensor \o <<"[">> \o strIndex \o <<"]">>

\* lines 1407-1434 (1459-1486) with the text between the parentheses in hand
IndexedOnceArgs(strKernel, objVariables, macro, strDigit, strInner, strArgs) ==
    IF DigitVal(strDigit) # Len(strArgs) - 1 THEN Pass("raised", strKernel, strArgs)
    ELSE IF ~IsTensorVar(objVariables, strArgs[1]) THEN Pass("raised", strKernel, strArgs)
    ELSE IF DigitVal(strDigit) > Len(GetVar(objVariables, strArgs[1]).stride)
    THEN Pass("raised", strKernel, strArgs)
    ELSE Pass("again",
              Replace(strKernel, macro \o <<strDigit, "(">> \o strInner \o <<")">>,
                      IndexedText(macro, strArgs[1],
                                  IndexSum(strArgs, GetVar(objVariables, strArgs[1]).stride,
                                           DigitVal(strDigit)))),
              strArgs)

IndexedOnceSpan(strKernel, objVariables, macro, strDigit, strInner) ==
    IndexedOnceArgs(strKernel, objVariables, macro, strDigit, strInner, Split(strInner, ","))

IndexedOnceScan(strKernel, objVariables, macro, m, intStop) ==
    IF intStop = 0 THEN Pass("raised", strKernel, <<>>)
    ELSE IndexedOnceSpan(strKernel, objVariables, macro, strKernel[m + Len(macro)],
                         SubSeq(strKernel, m + Len(macro) + 2, intStop - 1))

\* one pass of the loop of lines 1385-1435 (macro = OFFSET) or 1437-1487 (VALUE)
IndexedOnce(strKernel, objVariables, macro, m) ==
    IF m = 0 THEN Pass("break", strKernel, <<>>)
    ELSE IndexedOnceScan(strKernel, objVariables, macro, m,
                         ScanClose(strKernel, m + Len(macro) + 2, 1))

\* mutant of LoopAfter: the VALUE_k loop runs before the OFFSET_k loop
LoopAfter_ValueFirst(pc) ==
    CASE pc = "subst" -> "size"
      [] pc = "size" -> "value"
      [] pc = "value" -> "offset"
      [] pc = "offset" -> "store"

\* the order of the loops in the text of cuda_kernel
LoopAfter(pc) ==
    CASE pc = "subst" -> "size"
      [] pc = "size" -> "offset"
      [] pc = "offset" -> "value"
      [] pc = "value" -> "store"

\* the arguments a macro call of a template is written with
MacroArgs ==
    { <<"i">>, <<" ", "j", " ">>, <<"(", "i", ")">>, <<"{", "i", "+", "1", "}">>,
      <<"(", "(", "i", ")", ")">>, <<"(", "i", ",", "j", ")">>,
      <<"{", "f", "(", "i", ",", "j", ")", "}">>, <<"{", "i", ")", "}">> }

MacroArgLists == {<<x>> : x \in MacroArgs} \cup {<<x, y>> : x \in MacroArgs, y \in MacroArgs}

\* macro_k(a, args...) with k the number of arguments written
MacroCall(macro, args) ==
    macro \o NatStr(Len(args)) \o <<"(", "a", ",">> \o Join(<<",">>, args) \o <<")">>

\* templates that are not one macro call
OtherTemplates ==
    { TplSize, TplSize1, TplSizeB, TplOffB, TplValB, TplValue, TplScalar,
      MacroCall(VALUE, <<TplSize>>),
      MacroCall(VALUE, << <<"i">> >>) \o <<"+">> \o MacroCall(VALUE, << <<"i">> >>),
      MacroCall(VALUE, << <<"i">> >>) \o <<"+">> \o MacroCall(VALUE, << <<"(", "i", ")">> >>),
      MacroCall(VALUE, << <<"i">> >>) \o MacroCall(OFFSET, << <<"j">> >>) \o TplSize1,
      MacroCall(OFFSET, << <<"S", "I", "Z", "E", "_", "0", "{", "a", "}">> >>),
      MacroCall(VALUE, << <<"O", "F", "F", "S", "E", "T", "_", "0", "{", "a", "}">> >>),
      <<"O", "F", "F", "S", "E", "T", "_", "1">> \o MacroCall(OFFSET, << <<"i">> >>),
      <<"V", "A", "L", "U", "E", "_", "2", "(", "a", ",", "(", "i", ",", "j", ")", ")">>,
      <<"O", "F", "F", "S", "E", "T", "_", "1", "(", "a", ",", "(", "i">>,
      <<"V", "A", "L", "U", "E", "_", "3", "(", "a", ",", "i", ",", "j", ",", "k", ")">>,
      <<"S", "I", "Z", "E", "_", "0", "(", "a">> }

\* the bindings of every run
ResolveVariables == <<Bind(NameA, TenA1), Bind(NameN, PyInt(7))>>

ResolveStart(strKernel, macro, args) ==
    [pc |-> "subst", template |-> strKernel, macro |-> macro, args |-> args,
     objVariables |-> ResolveVariables, strKernel |-> strKernel, before |-> strKernel,
     strArgs |-> <<>>, loops |-> <<>>, replaced |-> FALSE, passes |-> 0]

\* the run after a pass of the loop it is in
AfterPass(run, pass) ==
    [run EXCEPT !.pc = CASE pass.next = "again" -> run.pc
                         [] pass.next = "break" -> LoopAfter(run.pc)
                         [] pass.next = "raised" -> "raised",
                !.before = run.strKernel,
                !.strKernel = pass.strKernel,
                !.strArgs = pass.strArgs,
                !.loops = IF pass.next = "again" /\ (run.loops = <<>> \/ run.loops[Len(run.loops)] # run.pc)
                          THEN Append(run.loops, run.pc) ELSE run.loops,
                !.replaced = (pass.next = "again"),
                !.passes = IF pass.next = "again" THEN run.passes + 1 ELSE run.passes]

AfterSubst(run, r) ==
    [run EXCEPT !.pc = IF r.ok THEN LoopAfter(run.pc) ELSE "raised",
                !.before = run.strKernel, !.strKernel = r.strKernel]

\* lines 1316-1361
r_subst ==
    /\ thr # Idle
    /\ thr.pc = "subst"
    /\ thr' = AfterSubst(thr, SubstVars(thr.strKernel, thr.objVariables))
    /\ UNCHANGED <<objCudacache, memo, curDevice, nAlloc, calls, launches, splat>>

\* one pass of the loop of lines 1363-1383
r_size ==
    /\ thr # Idle
    /\ thr.pc = "size"
    /\ thr' = AfterPass(thr, SizeOnce(thr.strKernel, thr.objVariables,
                                      SizeSearch(thr.strKernel, 1)))
    /\ UNCHANGED <<objCudacache, memo, curDevice, nAlloc, calls, launches, splat>>

\* one pass of the loop of lines 1385-1435
r_offset ==
    /\ thr # Idle
    /\ thr.pc = "offset"
    /\ thr' = AfterPass(thr, IndexedOnce(thr.strKernel, thr.objVariables, OFFSET,
                                         MacroSearch(thr.strKernel, OFFSET, 1)))
    /\ UNCHANGED <<objCudacache, memo, curDevice, nAlloc, calls, launches, splat>>

\* one pass of the loop of lines 1437-1487
r_value ==
    /\ thr # Idle
    /\ thr.pc = "value"
    /\ thr' = AfterPass(thr, IndexedOnce(thr.strKernel, thr.objVariables, VALUE,
                                         MacroSearch(thr.strKernel, VALUE, 1)))
    /\ UNCHANGED <<objCudacache, memo, curDevice, nAlloc, calls, launches, splat>>

\* line 1489: the record is stored under the key of the call
r_store ==
    /\ thr # Idle
    /\ thr.pc = "store"
    /\ thr' = [thr EXCEPT !.pc = "stored"]
    /\ objCudacache' =
          (cuda_key(FuncF, thr.objVariables, get_device_name(curDevice))
              :> [strFunction |-> FuncF, strKernel |-> thr.strKernel, id |-> nAlloc + 1])
          @@ DeviceEntry(objCudacache, curDevice)
    /\ nAlloc' = nAlloc + 1
    /\ UNCHANGED <<memo, curDevice, calls, launches, splat>>

InitResolve ==
    /\ objCudacache = EmptyMap
    /\ memo = EmptyMap
    /\ curDevice = 0
    /\ nAlloc = 0
    /\ calls = <<>>
    /\ launches = <<>>
    /\ splat = Idle
    /\ \/ \E macro \in {OFFSET, VALUE} : \E args \in MacroArgLists :
             thr = ResolveStart(MacroCall(macro, args), macro, args)
       \/ \E strKernel \in OtherTemplates : thr = ResolveStart(strKernel, <<>>, <<>>)

NextResolve ==
    \/ r_subst
    \/ r_size
    \/ r_offset
    \/ r_value
    \/ r_store

SpecResolve == InitResolve /\ [][NextResolve]_vars

-----------------------------------------------------------------------------
(* Properties of the resolution.                                           *)

ResolveRun == thr # Idle /\ "template" \in DOMAIN thr

\* the stepwise run ends as cuda_resolve says
StepwiseAgrees ==
    /\ (ResolveRun /\ thr.pc = "store")
          => cuda_resolve(thr.template, thr.objVariables) = Ok(thr.strKernel)
    /\ (ResolveRun /\ thr.pc = "raised")
          => ~cuda_resolve(thr.template, thr.objVariables).ok

\* the run resolves one macro call written with the arguments thr.args, and is over
CallResolved ==
    /\ ResolveRun
    /\ thr.macro # <<>>
    /\ thr.pc \in {"stored", "raised"}

\* the expansion of macro_k(a, args...) when every written argument is taken as
\* one argument
CallExpansion(macro, args) ==
    IndexedText(macro, NameA, IndexSum(<<NameA>> \o args, TenA1.stride, Len(args)))

\* C21: a macro call OFFSET_k / VALUE_k whose k index arguments are plain names,
\* balanced parenthesis groups or {...} groups, whatever the groups contain,
\* expands with exactly those k arguments, the braces rewritten to parentheses.
C21_GroupsAreOneArgument ==
    CallResolved =>
        /\ thr.pc = "stored"
        /\ thr.strKernel = CallExpansion(thr.macro, thr.args)

\* the place of a loop in the order the claim states
LoopRank(pc) == CASE pc = "size" -> 1 [] pc = "offset" -> 2 [] pc = "value" -> 3

\* the loops that replaced something did so in the stated order, each in one
\* stretch, and after the substitution
LoopsInOrder ==
    ResolveRun =>
        /\ \A x \in 1..Len(thr.loops) : \A y \in 1..Len(thr.loops) :
              x < y => LoopRank(thr.loops[x]) < LoopRank(thr.loops[y])
        /\ thr.pc = "subst" => thr.loops = <<>>

\* what the macros become: SIZE_k(a) the k-th extent, OFFSET_k(a, i...) the sum
\* of the indices times the strides, VALUE_k(a, i...) a[that sum]
MacrosMean ==
    /\ (ResolveRun /\ thr.pc = "stored" /\ thr.template = TplSize)
          => thr.strKernel = IntStr(TenA1.shape[1])
    /\ (ResolveRun /\ thr.pc = "stored" /\ thr.template = TplSize1)
          => thr.strKernel = IntStr(TenA1.shape[2])
    /\ (CallResolved /\ thr.pc = "stored" /\ thr.args = << <<"i">>, <<"(", "i", ")">> >>)
          => thr.strKernel =
                IF thr.macro = OFFSET
                THEN <<"(", "(", "(", "i", ")", "*", "3", ")", "+",
                       "(", "(", "(", "i", ")", ")", "*", "1", ")", ")">>
                ELSE <<"a", "[", "(", "(", "i", ")", "*", "3", ")", "+",
                       "(", "(", "(", "i", ")", ")", "*", "1", ")", "]">>

OccurrencesOf(s, macro) ==
    Cardinality({i \in 1..Len(s) : MacroSearch(s, macro, i) = i})

\* the places of s where the name of the macro stands
NamesOf(s, macro) == Cardinality({i \in 1..Len(s) : StartsWithAt(s, i, macro)})

MacroOf(pc) == CASE pc = "size" -> SIZE [] pc = "offset" -> OFFSET [] pc = "value" -> VALUE

\* the parentheses of s balance: the scan of lines 1396-1405, begun outside,
\* ends at no character
Balanced(s) == ScanClose(s \o <<"(">>, 1, 1) = 0 /\ ScanClose(s \o <<")">>, 1, 1) = Len(s) + 1

\* every macro call of s names the bound tensor a
NamesBound(s) ==
    \A macro \in {SIZE, OFFSET, VALUE} : \A i \in 1..Len(s) :
        MacroSearch(s, macro, i) = i
           => /\ i + Len(macro) + 3 <= Len(s)
              /\ s[i + Len(macro) + 2] = "a"
              /\ s[i + Len(macro) + 3] \in {",", ")"}

\* the precondition of C23 on the template of the run
WellFormedRun == ResolveRun /\ Balanced(thr.template) /\ NamesBound(thr.template)

\* the places of the template where the name of a macro stands
NamesIn(s) == NamesOf(s, SIZE) + NamesOf(s, OFFSET) + NamesOf(s, VALUE)

-----------------------------------------------------------------------------
(* Properties of the stores of the backward kernels                         *)

\* a step of one worker of a backward kernel
GradWorkerStep ==
    /\ splat # Idle
    /\ splat.pc \in {"ingrad", "flowgrad"}
    /\ splat'.pc = splat.pc

\* the cells of a gradient that a step changes
CellsChanged(before, after) == {o \in 1..Len(before) : after[o] # before[o]}

\* the indices whose loop iteration a step ends
IndicesEnded(before, after) == {o \in 1..Len(before) : ~before[o] /\ after[o]}

\* the cell of flat index o - 1 of tenIngrad and of tenFlowgrad, computed from
\* the tensors saved by forward and the upstream gradient alone
IngradCell(sp, o) ==
    IngradSum(sp, IntN(sp.shape, o - 1), IntC(sp.shape, o - 1),
              DestX(sp, IntN(sp.shape, o - 1), IntY(sp.shape, o - 1), IntX(sp.shape, o - 1)).v,
              DestY(sp, IntN(sp.shape, o - 1), IntY(sp.shape, o - 1), IntX(sp.shape, o - 1)).v)

FlowgradCell(sp, o) ==
    FlowgradSum(sp, IntN(sp.flowShape, o - 1), IntC(sp.flowShape, o - 1),
                IntY(sp.flowShape, o - 1), IntX(sp.flowShape, o - 1))

\* C24: a step of a worker of softsplat_ingrad or softsplat_flowgrad changes no
\* cell of either gradient but the one at the flat index whose iteration the
\* step ends, an iteration that is over stays over (so no cell is written by
\* two workers), the tensors the kernels read are not written, and the value
\* stored is a function of those tensors and the index alone: whatever the
\* order of the workers, plain stores give the same gradients.
C24_WorkersStoreOwnCell ==
    [][GradWorkerStep
       => /\ CellsChanged(splat.tenIngrad, splat'.tenIngrad)
                \subseteq (IF splat.pc = "ingrad" THEN IndicesEnded(splat.wi, splat'.wi) ELSE {})
          /\ CellsChanged(splat.tenFlowgrad, splat'.tenFlowgrad)
                \subseteq (IF splat.pc = "flowgrad" THEN IndicesEnded(splat.wf, splat'.wf) ELSE {})
          /\ Cardinality(CellsChanged(splat.tenIngrad, splat'.tenIngrad)
                         \cup CellsChanged(splat.tenFlowgrad, splat'.tenFlowgrad)) <= 1
          /\ \A o \in 1..Len(splat.wi) : splat.wi[o] => splat'.wi[o]
          /\ \A o \in 1..Len(splat.wf) : splat.wf[o] => splat'.wf[o]
          /\ splat'.tenIn = splat.tenIn
          /\ splat'.tenFlow = splat.tenFlow
          /\ splat'.tenOutgrad = splat.tenOutgrad
          /\ \A o \in CellsChanged(splat.tenIngrad, splat'.tenIngrad) :
                splat'.tenIngrad[o] = IngradCell(splat, o)
          /\ \A o \in CellsChanged(splat.tenFlowgrad, splat'.tenFlowgrad) :
                splat'.tenFlowgrad[o] = FlowgradCell(splat, o)]_vars

\* both kernels are through after their workers ran out of index order: the
\* worker of the last index of each gradient stored before the worker of the
\* first one, and two cells of each gradient hold different stored values
C24_Witness ==
    /\ splat # Idle
    /\ splat.pc = "flowgrad"
    /\ splat.needs_input_grad = <<TRUE, TRUE>>
    /\ Len(splat.tenIngrad) > 1
    /\ splat.wf[Len(splat.wf)]
    /\ ~splat.wf[1]
    /\ splat.tenFlowgrad[Len(splat.wf)] = FlowgradCell(splat, Len(splat.wf))
    /\ splat.tenFlowgrad[Len(splat.wf)] # splat.tenFlowgrad[1]
    /\ \E o \in 2..Len(splat.tenIngrad) :
          splat.tenIngrad[o] # splat.tenIngrad[1] /\ splat.tenIngrad[o] = IngradCell(splat, o)

-----------------------------------------------------------------------------
(* Properties of the record a call returns                                  *)

\* the call cuda_kernel has just returned from
LastCall == calls[Len(calls)]

\* C26 (as claimed): after every successful call the record stored under the
\* returned key holds the resolution of that call's template against that
\* call's bindings, also when the key was there from a call with another
\* template.
C26_RecordIsOfThisCall ==
    (Len(calls) > 0 /\ LastCall.ok)
    => /\ LastCall.strKey \in DOMAIN objCudacache
       /\ ResolveTable[LastCall.i].ok
       /\ objCudacache[LastCall.strKey].strKernel = ResolveTable[LastCall.i].strKernel

-----------------------------------------------------------------------------
(* backwarp (M2M_arch.py, lines 20-91) and its cache of sampling grids,     *)
(* objBackwarpcache.  A tensor is its dtype, device and shape; thr holds    *)
(* the cache and the outcome of the last call.                              *)

MaxBackwarps == 3

\* str(torch.device)
DeviceStr(device) ==
    IF device = "cpu" THEN <<"c", "p", "u">> ELSE <<"c", "u", "d", "a", ":", "0">>

\* the flows the callers pass: [N, 2, H, W]
BackwarpSizes == { <<2, 2>>, <<3, 2>>, <<12, 34>>, <<123, 4>>, <<1, 11>>, <<11, 1>> }

BackwarpFlows ==
    { [dtype |-> d, device |-> v, shape |-> <<1, 2, hw[1], hw[2]>>] :
        d \in {"float32", "float64"}, v \in {"cuda:0", "cpu"}, hw \in BackwarpSizes }

\* lines 25-29, 57-61 and 78-82: the key of the grid of a flow
BackwarpKey(tenFlow) ==
    <<"g", "r", "i", "d">> \o DtypeStr(tenFlow.dtype) \o DeviceStr(tenFlow.device)
    \o NatStr(tenFlow.shape[3]) \o NatStr(tenFlow.shape[4])

\* lines 32-54 and 62: torch.cat([tenHor, tenVer], 1), of shape [1, 2, H, W]
BackwarpGrid(tenFlow) ==
    [dtype |-> tenFlow.dtype, device |-> tenFlow.device,
     shape |-> <<1, 2, tenFlow.shape[3], tenFlow.shape[4]>>]

\* lines 24-63: the grid is built and stored when its key is not in the cache
BackwarpCached(cache, tenFlow) ==
    IF BackwarpKey(tenFlow) \in DOMAIN cache THEN cache
    ELSE (BackwarpKey(tenFlow) :> BackwarpGrid(tenFlow)) @@ cache

\* lines 65-74: a divisor "size - 1.0" of the scaling is 0.0 and Python raises
\* ZeroDivisionError; "shape[3] and shape[2]" is shape[2] unless shape[3] is 0
BackwarpScaleRaises(tenFlow) ==
    IF tenFlow.shape[4] = tenFlow.shape[3]
    THEN (IF tenFlow.shape[4] # 0 THEN tenFlow.shape[3] ELSE tenFlow.shape[4]) - 1 = 0
    ELSE tenFlow.shape[4] - 1 = 0 \/ tenFlow.shape[3] - 1 = 0

\* the sizes of two shapes of one length can be broadcast together
Broadcastable(a, b) == \A k \in 1..Len(a) : a[k] = b[k] \/ a[k] = 1 \/ b[k] = 1

Broadcast(a, b) == [k \in 1..Len(a) |-> IF a[k] = 1 THEN b[k] ELSE a[k]]

\* lines 76-90: the cached grid plus the flow is the grid of grid_sample, whose
\* output has the height and width of that grid
BackwarpSample(cache, tenFlow) ==
    IF BackwarpScaleRaises(tenFlow)
    THEN [raised |-> "ZeroDivisionError", grid |-> <<>>, out |-> <<>>]
    ELSE IF ~Broadcastable(cache[BackwarpKey(tenFlow)].shape, tenFlow.shape)
    THEN [raised |-> "RuntimeError", grid |-> cache[BackwarpKey(tenFlow)].shape, out |-> <<>>]
    ELSE [raised |-> "no",
          grid |-> cache[BackwarpKey(tenFlow)].shape,
          out |-> <<Broadcast(cache[BackwarpKey(tenFlow)].shape, tenFlow.shape)[3],
                    Broadcast(cache[BackwarpKey(tenFlow)].shape, tenFlow.shape)[4]>>]

\* one call of backwarp (lines 23-91)
backwarp(tenFlow) ==
    /\ thr.count < MaxBackwarps
    /\ thr' = [pc |-> "backwarp",
               objBackwarpcache |-> BackwarpCached(thr.objBackwarpcache, tenFlow),
               count |-> thr.count + 1,
               tenFlow |-> tenFlow,
               hit |-> BackwarpKey(tenFlow) \in DOMAIN thr.objBackwarpcache,
               result |-> BackwarpSample(BackwarpCached(thr.objBackwarpcache, tenFlow), tenFlow)]
    /\ UNCHANGED <<objCudacache, memo, curDevice, nAlloc, calls, launches, splat>>

InitBackwarp ==
    /\ objCudacache = EmptyMap
    /\ memo = EmptyMap
    /\ curDevice = 0
    /\ nAlloc = 0
    /\ calls = <<>>
    /\ launches = <<>>
    /\ splat = Idle
    /\ thr = [pc |-> "start", objBackwarpcache |-> EmptyMap, count |-> 0]

NextBackwarp == \E tenFlow \in BackwarpFlows : backwarp(tenFlow)

SpecBackwarp == InitBackwarp /\ [][NextBackwarp]_vars

\* C30 (as claimed): two flows of one dtype and device and of different
\* (height, width) never share an entry of objBackwarpcache: the grid a call
\* of backwarp reads from the cache has the height and width of its flow.
C30_GridHasFlowSize ==
    (thr.pc = "backwarp" /\ thr.result.raised # "ZeroDivisionError")
    => /\ thr.result.grid[3] = thr.tenFlow.shape[3]
       /\ thr.result.grid[4] = thr.tenFlow.shape[4]

-----------------------------------------------------------------------------
(* Calls of one function name and one template whose bindings differ in    *)
(* names and in scalar and string values.                                   *)

NameX == <<"x">>

\* the template of every call: {{x}}
TplX == Placeholder(NameX)

ScalarChoices ==
    << <<Bind(NameX, PyInt(1)), Bind(<<"2", "y">>, PyInt(3))>>,
       <<Bind(NameX, PyInt(12)), Bind(<<"y">>, PyInt(3))>>,
       <<Bind(NameX, PyStr(<<"a">>)), Bind(<<"b">>, PyStr(<<"c">>))>>,
       <<Bind(NameX, PyStr(<<"a", "b">>)), Bind(<<"c">>, None)>>,
       <<Bind(NameX, PyInt(1))>>,
       <<Bind(NameX, PyStr(<<"1">>))>>,
       <<Bind(NameX, PyBool(TRUE))>>,
       <<Bind(NameX, PyInt(2)), Bind(<<"y">>, PyInt(3))>> >>

ScalarIds == 1..Len(ScalarChoices)

ScalarKeys ==
    [i \in ScalarIds |-> [n \in DeviceNames |-> cuda_key(FuncF, ScalarChoices[i], n)]]

ScalarResolved == [i \in ScalarIds |-> cuda_resolve(TplX, ScalarChoices[i])]

\* cuda_launch(cuda_kernel("f", "{{x}}", ScalarChoices[i])), lines 1274-1512
scalar_call(i) ==
    /\ Len(calls) < MaxCalls
    /\ KernelLaunch(FuncF, ScalarKeys[i], ScalarResolved[i])
    /\ calls' = Append(calls,
                       [i |-> i, device |-> curDevice, ok |-> TRUE,
                        strKey |-> ScalarKeys[i][DeviceEntry(objCudacache,
                                                             curDevice)[DeviceKey].device],
                        hit |-> ScalarKeys[i][DeviceEntry(objCudacache,
                                                          curDevice)[DeviceKey].device]
                                   \in DOMAIN objCudacache,
                        resolved |-> ScalarKeys[i][DeviceEntry(objCudacache,
                                                               curDevice)[DeviceKey].device]
                                        \notin DOMAIN objCudacache])
    /\ UNCHANGED <<curDevice, launches, thr, splat>>

NextScalar == \E i \in ScalarIds : scalar_call(i)

SpecScalar == Init /\ [][NextScalar]_vars

\* C25 (as claimed): two calls with one function name and one template whose
\* bindings resolve the template to different sources never get the same key,
\* and the record under the key a call returns holds the source resolved from
\* the bindings of that call.
C25_KeySeparatesSources ==
    /\ \A j, k \in 1..Len(calls) :
          ScalarResolved[calls[j].i].strKernel # ScalarResolved[calls[k].i].strKernel
          => calls[j].strKey # calls[k].strKey
    /\ Len(calls) > 0
       => objCudacache[LastCall.strKey].strKernel = ScalarResolved[LastCall.i].strKernel

-----------------------------------------------------------------------------
(* The launch geometry of the splat kernels (lines 1598-1602, 1648-1651):   *)
(* one thread of the grid runs its grid-stride loop.  intIndex and n are    *)
(* the 32-bit int of the kernel; blockDim.x * gridDim.x is unsigned, and    *)
(* "intIndex +=" converts the sum back to int, modulo 2^32.                 *)

IntMax == 2147483647

\* intIndex += (unsigned) stride, for intIndex < n <= IntMax and 0 < stride <= IntMax
StrideAdd(intIndex, stride) ==
    IF intIndex >= 0 /\ stride > IntMax - intIndex
    THEN (((intIndex - (IntMax - stride)) - 1) - IntMax) - 1
    ELSE intIndex + stride

\* tenOut of the launches: element counts around one and two blocks, and
\* around 2^30
GridShapes ==
    { <<1, 1, 1, 1>>, <<1, 1, 19, 27>>, <<1, 1, 16, 32>>, <<1, 3, 11, 31>>, <<2, 1, 16, 32>>,
      <<1, 1, 25, 41>>, <<1, 1, 32768, 32768>>, <<1, 1, 32768, 32769>> }

\* the threads followed: every thread of the first three blocks, and the
\* threads around the element count and the end of the grid
GridThreads(n) ==
    {t \in (0..(3 * BlockDim - 1))
            \cup {IntMax - ThreadCount(n), IntMax - ThreadCount(n) + 1, n - 2, n - 1, n,
                  ThreadCount(n) - 1} :
        t >= 0 /\ t < ThreadCount(n)}

\* line 1598: the thread enters its loop at intIndex = blockIdx.x * blockDim.x + threadIdx.x
GridStart(shape, t) ==
    [pc |-> "loop", shape |-> shape, n |-> NumEl(shape), thread |-> t, intIndex |-> t,
     processed |-> <<>>]

\* lines 1598-1642: the loop test holds and the body runs for intIndex, then
\* "intIndex += blockDim.x * gridDim.x"
grid_body ==
    /\ thr.pc = "loop"
    /\ thr.intIndex < thr.n
    /\ thr.intIndex >= 0
    /\ thr' = [thr EXCEPT !.processed = Append(thr.processed, thr.intIndex),
                          !.intIndex = StrideAdd(thr.intIndex, ThreadCount(thr.n))]
    /\ UNCHANGED <<objCudacache, memo, curDevice, nAlloc, calls, launches, splat>>

\* the loop test holds for a negative intIndex: the body reads and adds at
\* addresses before the tensors; the accesses fault, or they land in mapped
\* memory and the loop goes on
grid_body_outside ==
    /\ thr.pc = "loop"
    /\ thr.intIndex < thr.n
    /\ thr.intIndex < 0
    /\ \/ thr' = [thr EXCEPT !.processed = Append(thr.processed, thr.intIndex),
                             !.pc = "fault"]
       \/ thr' = [thr EXCEPT !.processed = Append(thr.processed, thr.intIndex),
                             !.intIndex = StrideAdd(thr.intIndex, ThreadCount(thr.n))]
    /\ UNCHANGED <<objCudacache, memo, curDevice, nAlloc, calls, launches, splat>>

\* line 1598: "intIndex < n" fails and the thread is through
grid_exit ==
    /\ thr.pc = "loop"
    /\ thr.intIndex >= thr.n
    /\ thr' = [thr EXCEPT !.pc = "exit"]
    /\ UNCHANGED <<objCudacache, memo, curDevice, nAlloc, calls, launches, splat>>

InitGrid ==
    /\ objCudacache = EmptyMap
    /\ memo = EmptyMap
    /\ curDevice = 0
    /\ nAlloc = 0
    /\ calls = <<>>
    /\ launches = <<>>
    /\ splat = Idle
    /\ \E shape \in GridShapes : \E t \in GridThreads(NumEl(shape)) : thr = GridStart(shape, t)

NextGrid == grid_body \/ grid_body_outside \/ grid_exit

SpecGrid == InitGrid /\ [][NextGrid]_vars

\* the indices a thread is to process: its own when that is below n
GridShare(n, t) == IF t < n THEN <<t>> ELSE <<>>

\* (n, c, y, x) of a flat index is inside tenOut and is the index again
DecodesBack(shape, intIndex) ==
    /\ IntN(shape, intIndex) \in 0..(shape[1] - 1)
    /\ IntC(shape, intIndex) \in 0..(shape[2] - 1)
    /\ IntY(shape, intIndex) \in 0..(shape[3] - 1)
    /\ IntX(shape, intIndex) \in 0..(shape[4] - 1)
    /\ Offset4(Contiguous(shape), IntN(shape, intIndex), IntC(shape, intIndex),
               IntY(shape, intIndex), IntX(shape, intIndex)) = intIndex

\* C27 (as claimed): for every element count n >= 1 the grid has at least n
\* threads, a thread is through after processing its own index once when that
\* is below n and nothing otherwise, so every index of [0, n) is processed by
\* exactly one thread exactly once, and every index processed decodes to a
\* position (n, c, y, x) of tenOut that encodes back to it.
C27_EachIndexOnce ==
    /\ ThreadCount(thr.n) >= thr.n
    /\ thr.pc # "fault"
    /\ Len(thr.processed) <= 1
    /\ \A k \in 1..Len(thr.processed) :
          thr.processed[k] = thr.thread /\ DecodesBack(thr.shape, thr.processed[k])
    /\ thr.pc = "exit" => thr.processed = GridShare(thr.n, thr.thread)

\* the same for the launches of at most 2^30 elements
GridSmall == thr.n <= 1073741824 => C27_EachIndexOnce

-----------------------------------------------------------------------------
(* The corner weights of softsplat_out (lines 1614-1642) in the arithmetic  *)
(* of the kernel for float32 tensors: {{type}} is float, every subtraction  *)
(* and product is rounded to 24 significant bits, to nearest, ties to even. *)
(* A coordinate is a multiple of 2^-27; a product is a pair [hi, lo] of     *)
(* value hi * 2^-27 + lo * 2^-54 with 0 <= lo < 2^27.                       *)

RECURSIVE Pow2(_)
Pow2(k) == IF k = 0 THEN 1 ELSE 2 * Pow2(k - 1)

\* 1.0 in units of 2^-27
FloatUnit == Pow2(27)

\* the number of bits of n >= 0
BitLen(n) == CHOOSE k \in 0..31 : n < Pow2(k) /\ (k = 0 \/ n >= Pow2(k - 1))

Wide(hi, lo) == [hi |-> hi, lo |-> lo]

\* round to nearest, ties to even: q spacings and a rest r of spacing s, with
\* more below r when sticky
RoundsUp(q, r, s, sticky) == 2 * r > s \/ (2 * r = s /\ (sticky \/ q % 2 = 1))

\* a value of at least 2^-4: the 24 bits end in hi, at spacing s
RoundHigh(hi, lo, s) ==
    IF s = 1
    THEN Wide(hi + (IF RoundsUp(hi, lo, FloatUnit, FALSE) THEN 1 ELSE 0), 0)
    ELSE Wide(((hi \div s) + (IF RoundsUp(hi \div s, hi % s, s, lo > 0) THEN 1 ELSE 0)) * s, 0)

\* a value below 2^-4: the 24 bits end in lo, at spacing s
RoundLow(hi, lo, s) ==
    IF ((lo \div s) + (IF RoundsUp(lo \div s, lo % s, s, FALSE) THEN 1 ELSE 0)) * s = FloatUnit
    THEN Wide(hi + 1, 0)
    ELSE Wide(hi, ((lo \div s) + (IF RoundsUp(lo \div s, lo % s, s, FALSE) THEN 1 ELSE 0)) * s)

\* the float nearest to a value
FloatRound(v) ==
    IF v.hi >= Pow2(23) THEN RoundHigh(v.hi, v.lo, Pow2(BitLen(v.hi) - 24))
    ELSE IF v.hi > 0 THEN RoundLow(v.hi, v.lo, Pow2(BitLen(v.hi) + 3))
    ELSE IF BitLen(v.lo) > 24 THEN RoundLow(0, v.lo, Pow2(BitLen(v.lo) - 24))
    ELSE v

\* the product of two multiples a, b of 2^-27 in 0..FloatUnit, by 14-bit limbs
MulMiddle(a, b) == (a \div Pow2(14)) * (b % Pow2(14)) + (a % Pow2(14)) * (b \div Pow2(14))

MulLow(a, b) ==
    ((MulMiddle(a, b) % Pow2(13)) * Pow2(14)) + (((a % Pow2(14)) * (b % Pow2(14))) % FloatUnit)

MulExact(a, b) ==
    Wide((2 * ((a \div Pow2(14)) * (b \div Pow2(14)))) + (MulMiddle(a, b) \div Pow2(13))
           + (((a % Pow2(14)) * (b % Pow2(14))) \div FloatUnit) + (MulLow(a, b) \div FloatUnit),
         MulLow(a, b) % FloatUnit)

\* the float product of two floats a, b in 0..FloatUnit
FloatMul(a, b) == FloatRound(MulExact(a, b))

\* the float product of the integer-valued float k and the float w
FloatTimes(k, w) ==
    FloatRound(Wide((k * w.hi) + ((k * w.lo) \div FloatUnit), (k * w.lo) % FloatUnit))

WideAdd(v, w) == Wide(v.hi + w.hi + ((v.lo + w.lo) \div FloatUnit), (v.lo + w.lo) % FloatUnit)

\* (int) (floor(flt))
FloatFloor(flt) == flt \div FloatUnit

\* ((float) (intSoutheastX) - fltX) of lines 1623 and 1625: the distance to the
\* east (south) corner, at most 1
FactorEast(flt) == FloatRound(Wide(((FloatFloor(flt) + 1) * FloatUnit) - flt, 0)).hi

\* mutant of FactorWest: the distance is taken to the east corner again
FactorWest_East(flt) == FactorEast(flt)

\* (fltX - (float) (intSouthwestX)) of lines 1624 and 1626: the distance to the
\* west (north) corner
FactorWest(flt) == FloatRound(Wide(flt - (FloatFloor(flt) * FloatUnit), 0)).hi

\* lines 1623-1626: fltNorthwest, fltNortheast, fltSouthwest, fltSoutheast
FloatWeights(fltX, fltY) ==
    << FloatMul(FactorEast(fltX), FactorEast(fltY)),
       FloatMul(FactorWest(fltX), FactorEast(fltY)),
       FloatMul(FactorEast(fltX), FactorWest(fltY)),
       FloatMul(FactorWest(fltX), FactorWest(fltY)) >>

\* the destination coordinates, float32 values: 0, 0.5, 1.25, 0.1, 0.3, 1.1,
\* 2.7 and -0.1
FloatCoords == {0, 67108864, 167772160, 13421773, 40265320, 147639504, 362387872, -13421773}

\* fltIn
FloatSources == {1, 2, 3}

\* tenOut of the launch
WeightShape == <<1, 1, 4, 4>>

WeightStart(fltX, fltY, fltIn) ==
    [pc |-> "corners", fltX |-> fltX, fltY |-> fltY, fltIn |-> fltIn, weights |-> <<>>,
     adds |-> <<>>]

\* lines 1614-1626: the corners and their weights
corner_weights ==
    /\ thr.pc = "corners"
    /\ thr' = [thr EXCEPT !.pc = "weights", !.weights = FloatWeights(thr.fltX, thr.fltY)]
    /\ UNCHANGED <<objCudacache, memo, curDevice, nAlloc, calls, launches, splat>>

\* lines 1628-1642: fltIn * weight is added at every corner inside tenOut
corner_adds ==
    /\ thr.pc = "weights"
    /\ thr' = [thr EXCEPT
                  !.pc = "added",
                  !.adds = [corner \in 1..4 |->
                              IF InBounds(WeightShape, CornerX(FloatFloor(thr.fltX) * FlowScale,
                                                               corner),
                                          CornerY(FloatFloor(thr.fltY) * FlowScale, corner))
                              THEN FloatTimes(thr.fltIn, thr.weights[corner])
                              ELSE Wide(0, 0)]]
    /\ UNCHANGED <<objCudacache, memo, curDevice, nAlloc, calls, launches, splat>>

InitWeights ==
    /\ objCudacache = EmptyMap
    /\ memo = EmptyMap
    /\ curDevice = 0
    /\ nAlloc = 0
    /\ calls = <<>>
    /\ launches = <<>>
    /\ splat = Idle
    /\ \E fltX \in FloatCoords : \E fltY \in FloatCoords : \E fltIn \in FloatSources :
          thr = WeightStart(fltX, fltY, fltIn)

NextWeights == corner_weights \/ corner_adds

SpecWeights == InitWeights /\ [][NextWeights]_vars

-----------------------------------------------------------------------------
(* Properties of the corner weights                                         *)

WideLeq(v, w) == v.hi < w.hi \/ (v.hi = w.hi /\ v.lo <= w.lo)

\* v is within e * 2^-27 of the integer k
WideNear(v, k, e) ==
    WideLeq(Wide(k * FloatUnit - e, 0), v) /\ WideLeq(v, Wide(k * FloatUnit + e, 0))

WideSum(ws) == WideAdd(WideAdd(ws[1], ws[2]), WideAdd(ws[3], ws[4]))

\* the coordinate is a multiple of 2^-11: the subtractions and the products of
\* lines 1623-1626 and the products with fltIn <= 3 are exact
OnGrid(flt) == flt % Pow2(16) = 0

\* the four corners of the destination are inside tenOut
CornersInside(fltX, fltY) ==
    \A corner \in 1..4 :
        InBounds(WeightShape, CornerX(FloatFloor(fltX) * FlowScale, corner),
                 CornerY(FloatFloor(fltY) * FlowScale, corner))

-----------------------------------------------------------------------------
(* Properties of the denominator of forwarp_mframe_mask                     *)

\* C29: with at least one flow hypothesis and time weights that are not
\* negative, the two splats of every pass of the loop give every destination
\* pixel a weight that is not negative, 0.0000001 is added to each, and after
\* idx passes the summed denominator of every pixel is at least 2 * idx times
\* 0.0000001: the denominators of the division of line 1796 are strictly
\* positive.
C29_DenominatorPositive ==
    (splat # Idle /\ splat.t1 >= 0 /\ splat.t2 >= 0 /\ splat.flow_num >= 1)
    => /\ splat.idx >= 1
          => \A x \in 1..2 :
                /\ SplatOfF(splat, splat.idx - 1)[2 + x] >= 0
                /\ SplatOfB(splat, splat.idx - 1)[2 + x] >= 0
       /\ \A x \in 1..2 :
             splat.tenNormalize[x] >= 2 * splat.idx * MaskEpsilon * FlowScale * FlowScale
       /\ MaskReturned
          => \A x \in 1..2 : splat.tenNormalize[x] > 0 /\ splat.result[x].den > 0

\* the call has returned after several passes; the time weight of the first
\* direction is zero, so its splats give a pixel the constant alone, and the
\* second direction gives that pixel a positive weight
C29_Witness ==
    /\ MaskReturned
    /\ splat.flow_num > 1
    /\ splat.t1 = 0
    /\ \E x \in 1..2 :
          /\ SplatOfF(splat, 0)[2 + x] = 0
          /\ SplatOfB(splat, 0)[2 + x] > 0
          /\ splat.result[x].den > 2 * splat.flow_num * MaskEpsilon * FlowScale * FlowScale

====
